---- MODULE Spec2Model ----
(***************************************************************************)
(* Connection lifecycle of mcp-use: ConnectionManager (task_managers/base), *)
(* the connectors built on it (connectors/base, http, stdio, websocket).   *)
(*                                                                         *)
(* Scheduling model.  JavaScript runs one job at a time.  A job runs to    *)
(* its next suspension; the promise reactions it queues (continuations of  *)
(* `await` on a promise the job settled) run in the microtask checkpoint   *)
(* that follows, before any I/O callback or any further call from outside. *)
(* So one action = one job plus the continuations it releases.  Results of *)
(* I/O (establishConnection, closeConnection, client.connect, ...) arrive  *)
(* as separate actions.                                                    *)
(***************************************************************************)
EXTENDS Integers, Sequences, FiniteSets, TLC

\* ---- bounds ----
MaxStarts == 2      \* start() calls per ConnectionManager instance
MaxStops == 2       \* stop() calls per ConnectionManager instance
MaxMgrs == 3        \* ConnectionManager instances a connector may create
MaxSockets == 1     \* sockets one WebSocketConnector opens
MaxReqs == 2        \* requests sent over one WebSocketConnector

Tasks == 1..MaxStarts          \* task k is launched by the k-th start(); its handle is k
Gens == 0..MaxStarts           \* generation g = number of reset() calls after construction
StopIds == 1..MaxStops
Mgrs == 1..MaxMgrs

NoError == [kind |-> "none", of |-> 0]
EstablishError(t) == [kind |-> "establish", of |-> t]
NoConnectionError == [kind |-> "Connection was not established", of |-> 0]

VARIABLES
  cm,        \* cm[m]: the fields of ConnectionManager instance m and its callers' positions
  nMgrs,     \* instances constructed so far
  cx,        \* the connector: its fields, the call in progress, the last results
  cl,        \* cl[c]: the protocol Client built over the transport of manager c
  reg,       \* the MCPClient: configured servers, sessions, activeSessions, connectors
  sm,        \* the ServerManager: activeServer, serverTools, initializedServers
  ag,        \* the MCPAgent: its fields and the position of the stream() call
  tl         \* a tool built by the adapter: the call made and what came back

connVars == <<cm, nMgrs, cx, cl>>
appVars == <<reg, sm, ag, tl>>

\* Value of the variables of a layer that a specification does not exercise.
NoApp == "none"

\* ------------------------------------------------------------------------
\* ConnectionManager (src/src/task_managers/base.ts)
\* ------------------------------------------------------------------------

\* State after the constructor: fields at their initializers, then reset().
\* Promises and abort controllers are identified by the generation that
\* created them; readyRes/doneRes/aborted hold the generations whose
\* promise is resolved / whose controller is aborted.
NewCM ==
  [ gen |-> 0, readyRes |-> {}, doneRes |-> {}, aborted |-> {},
    exception |-> NoError, connection |-> 0, task |-> 0,
    tpc |-> [t \in Tasks |-> "none"],        \* position of connectionTask t
    tSignal |-> [t \in Tasks |-> 0],         \* abort signal waitForAbort captured
    tClosing |-> [t \in Tasks |-> 0],        \* handle given to closeConnection
    startCall |-> [k \in Tasks |-> "none"],  \* position of the k-th start() call
    startRet |-> [k \in Tasks |-> 0],        \* handle it returned
    startErr |-> [k \in Tasks |-> NoError],  \* error it threw
    stopCall |-> [s \in StopIds |-> "none"], \* position of the s-th stop() call
    stopTask |-> [s \in StopIds |-> 0],      \* the _task it awaits (0: _task was null)
    stopGen |-> [s \in StopIds |-> 0],       \* generation of the done promise it awaits
    \* history of the subclass hooks
    established |-> {},                      \* handles establishConnection returned
    estFailed |-> {},                        \* tasks whose establishConnection threw
    closeCalls |-> [h \in Tasks |-> 0],      \* closeConnection(h) invocations
    closeFailed |-> {},                      \* handles whose closeConnection threw
    overlapped |-> FALSE ]                   \* start() was called with a task still live

\* Variant of CMReset that keeps the abort controller: once aborted, the
\* controller of the next generation is aborted too.
CMReset_SameController(r) ==
  [r EXCEPT !.gen = @ + 1, !.exception = NoError, !.connection = 0, !.task = 0,
            !.aborted = IF r.gen \in r.aborted THEN @ \cup {r.gen + 1} ELSE @]

\* reset(): fresh promises and controller, fields cleared.
CMReset(r) ==
  [r EXCEPT !.gen = @ + 1, !.exception = NoError, !.connection = 0, !.task = 0]

\* start() resumed after `await this._readyPromise` (lines 60-69).
CMStartResume(r, k) ==
  IF r.exception # NoError
    THEN [r EXCEPT !.startCall[k] = "threw", !.startErr[k] = r.exception]
    ELSE IF r.connection = 0
      THEN [r EXCEPT !.startCall[k] = "threw", !.startErr[k] = NoConnectionError]
      ELSE [r EXCEPT !.startCall[k] = "returned", !.startRet[k] = r.connection]

\* this._readyResolver(): resolves the ready promise of the current
\* generation; the start() call awaiting it (the one that created it) resumes.
CMResolveReady(r) ==
  IF r.gen \in r.readyRes THEN r
  ELSE LET r1 == [r EXCEPT !.readyRes = @ \cup {r.gen}]
       IN IF r.gen \in Tasks /\ r.startCall[r.gen] = "pending"
            THEN CMStartResume(r1, r.gen)
            ELSE r1

\* this._doneResolver(): resolves the done promise of the current generation;
\* stop() calls suspended on it return.
CMResolveDone(r) ==
  [r EXCEPT !.doneRes = @ \cup {r.gen},
            !.stopCall = [s \in StopIds |->
               IF r.stopCall[s] = "awaitDone" /\ r.stopGen[s] = r.gen
                 THEN "returned" ELSE r.stopCall[s]]]

\* stop() from `await this._donePromise` on (lines 94-96): the promise read
\* is the one of the generation current at that moment.
CMStopAwaitDone(r, s) ==
  IF r.gen \in r.doneRes
    THEN [r EXCEPT !.stopCall[s] = "returned"]
    ELSE [r EXCEPT !.stopCall[s] = "awaitDone", !.stopGen[s] = r.gen]

RECURSIVE CMResumeStops(_, _, _)
CMResumeStops(r, t, S) ==
  IF S = {} THEN r
  ELSE LET s == CHOOSE x \in S : \A y \in S : x <= y
           r1 == IF r.stopCall[s] = "awaitTask" /\ r.stopTask[s] = t
                   THEN CMStopAwaitDone(r, s) ELSE r
       IN CMResumeStops(r1, t, S \ {s})

\* connectionTask t returns: the promise stored in _task settles and the
\* stop() calls suspended on `await this._task` go on.
CMTaskEnd(r, t) ==
  CMResumeStops([r EXCEPT !.tpc[t] = "finished"], t, StopIds)

\* Variant of CMTaskFinally that closes without testing _connection for null.
CMTaskFinally_NoNullCheck(r, t) ==
  [r EXCEPT !.tpc[t] = "closing", !.tClosing[t] = t, !.closeCalls[t] = @ + 1]

\* The finally block up to its suspension (lines 136-150).
CMTaskFinally(r, t) ==
  IF r.connection # 0
    THEN [r EXCEPT !.tpc[t] = "closing", !.tClosing[t] = r.connection,
                   !.closeCalls[r.connection] = @ + 1]
    ELSE CMTaskEnd(CMResolveDone(r), t)

\* closeConnection settled (ok or thrown and logged): lines 142-149.
CMCloseDone(r, t, ok) ==
  LET r1 == [r EXCEPT !.closeFailed = IF ok THEN @ ELSE @ \cup {r.tClosing[t]},
                      !.connection = 0]
  IN CMTaskEnd(CMResolveDone(r1), t)

\* establishConnection resolved with handle t (lines 120-127), then
\* waitForAbort on the controller current at that moment (lines 156-176).
CMEstablishOk(r, t) ==
  LET r1 == CMResolveReady([r EXCEPT !.connection = t, !.established = @ \cup {t}])
  IN IF r1.gen \in r1.aborted
       THEN CMTaskFinally(r1, t)
       ELSE [r1 EXCEPT !.tpc[t] = "waiting", !.tSignal[t] = r1.gen]

\* establishConnection threw (lines 129-135), then the finally block.
CMEstablishFail(r, t) ==
  CMTaskFinally(
    CMResolveReady([r EXCEPT !.exception = EstablishError(t), !.estFailed = @ \cup {t}]), t)

\* start() up to `await this._readyPromise` (lines 48-58); connectionTask
\* runs synchronously up to `await this.establishConnection()`.
CMStart(r) ==
  LET r0 == CMReset(r)
      k == r0.gen
  IN [r0 EXCEPT !.task = k, !.tpc[k] = "establishing", !.startCall[k] = "pending",
                !.overlapped = @ \/ (\E t \in Tasks : r.tpc[t] \notin {"none", "finished"})]

RECURSIVE CMFireAbort(_, _, _)
\* abort(): the listeners waitForAbort registered on this controller run;
\* each resumes its task into the finally block.
CMFireAbort(r, g, T) ==
  IF T = {} THEN r
  ELSE LET t == CHOOSE x \in T : \A y \in T : x <= y
           r1 == IF r.tpc[t] = "waiting" /\ r.tSignal[t] = g
                   THEN CMTaskFinally(r, t) ELSE r
       IN CMFireAbort(r1, g, T \ {t})

\* stop() (lines 75-97).
CMStop(r, s) ==
  IF r.task # 0
    THEN LET t == r.task
             r1 == IF r.gen \in r.aborted THEN r
                   ELSE CMFireAbort([r EXCEPT !.aborted = @ \cup {r.gen}], r.gen, Tasks)
             r2 == [r1 EXCEPT !.stopTask[s] = t]
         IN IF r2.tpc[t] = "finished"
              THEN CMStopAwaitDone(r2, s)
              ELSE [r2 EXCEPT !.stopCall[s] = "awaitTask"]
    ELSE CMStopAwaitDone(r, s)

\* ---- actions on instance m ----

Exists(m) == m \in 1..nMgrs

EstablishOk(m, t) ==
  /\ Exists(m) /\ cm[m].tpc[t] = "establishing"
  /\ cm' = [cm EXCEPT ![m] = CMEstablishOk(cm[m], t)]

EstablishFail(m, t) ==
  /\ Exists(m) /\ cm[m].tpc[t] = "establishing"
  /\ cm' = [cm EXCEPT ![m] = CMEstablishFail(cm[m], t)]

CloseOk(m, t) ==
  /\ Exists(m) /\ cm[m].tpc[t] = "closing"
  /\ cm' = [cm EXCEPT ![m] = CMCloseDone(cm[m], t, TRUE)]

CloseFail(m, t) ==
  /\ Exists(m) /\ cm[m].tpc[t] = "closing"
  /\ cm' = [cm EXCEPT ![m] = CMCloseDone(cm[m], t, FALSE)]

\* ------------------------------------------------------------------------
\* Connectors (src/src/connectors/http.ts: HttpConnector and BaseConnector;
\* src/unnamed/part_010: StdioConnector; src/unnamed/part_011:
\* WebSocketConnector)
\* ------------------------------------------------------------------------

ReqIds == 1..MaxReqs
Kinds == {"stdio", "http", "websocket"}

\* Errors.  cites: the failures whose reason the message text embeds.
NoCites == [streamable |-> "none", sse |-> "none"]
NoErr == [kind |-> "none", of |-> 0, class |-> "none", cites |-> NoCites]
Err(k, m, c) == [kind |-> k, of |-> m, class |-> c, cites |-> NoCites]

\* What a failed attempt can throw: StreamableHTTPError with a status code,
\* an Error whose text holds a status line, another Error, a non-Error value.
ErrClasses(attempt) ==
  IF attempt = "streamable-http"
    THEN {"http404", "http405", "http500", "msg404", "msg405", "error", "nonError"}
    ELSE {"error"}

\* new Error('Could not connect to server with any available transport')
CompositeError ==
  [kind |-> "Could not connect to server with any available transport",
   of |-> 0, class |-> "error", cites |-> NoCites]

\* fallbackReason (HttpConnector.connect, lines 68-91)
FallbackReason(e) ==
  CASE e.class \in {"http404", "http405"} ->
         "Server returned <code> - server likely doesn't support streamable HTTP"
    [] e.class = "http500" -> "Server returned <code>: <message>"
    [] e.class \in {"msg404", "msg405"} -> "Server doesn't support streamable HTTP (405/404)"
    [] e.class = "error" -> "Streamable HTTP failed: <message>"
    [] OTHER -> "Unknown error"

\* A Client: where it is, whether its connect() (the handshake) failed, and
\* the close() calls made on it.
NewClient == [state |-> "none", failed |-> FALSE, closeCalls |-> 0]

NoRet == [name |-> "none", outcome |-> "none", err |-> NoErr, started |-> {}]
\* A request: its promise (state, what settled it) and the callback of ws.send.
NewReq == [state |-> "unsent", by |-> "none", sendCb |-> "none"]

\* Fields after construction, and no call in progress.
NewConnector(k, p) ==
  [ kind |-> k, preferSse |-> p,
    connected |-> FALSE, client |-> 0, connectionManager |-> 0,
    toolsCache |-> FALSE, transportType |-> "null",
    \* WebSocketConnector
    ws |-> 0, receiverTask |-> "null", pending |-> {},
    \* the call in progress and where it is suspended
    op |-> "none", pc |-> "idle", attempt |-> "none", mgr |-> 0, stopId |-> 0,
    err |-> NoErr, fallbackReason |-> "none", after |-> "none", started |-> {},
    \* history
    ret |-> NoRet, prev |-> NoRet, log |-> {},
    mgrKind |-> [m \in Mgrs |-> "none"],
    sock |-> [m \in Mgrs |-> "none"],
    req |-> [i \in ReqIds |-> NewReq], nReq |-> 0 ]

\* The whole state as one value, so that a handler and the continuations it
\* releases compose as functions.
World == [cm |-> cm, n |-> nMgrs, x |-> cx, cl |-> cl]

Apply(W) == cm' = W.cm /\ nMgrs' = W.n /\ cx' = W.x /\ cl' = W.cl /\ UNCHANGED appVars

\* The call in progress settles: outcome "ok", "noop" or "threw".
XFinish(W, outcome, e) ==
  [W EXCEPT !.x.prev = W.x.ret,
            !.x.ret = [name |-> W.x.op, outcome |-> outcome, err |-> e,
                       started |-> W.x.started],
            !.x.op = "none", !.x.pc = "idle", !.x.attempt = "none", !.x.mgr = 0,
            !.x.stopId = 0, !.x.err = NoErr, !.x.fallbackReason = "none",
            !.x.after = "none", !.x.started = {}]

\* A promise settles once: later resolve/reject calls change nothing.
Settle(req, i, st, why) ==
  IF req[i].state = "pending" THEN [req EXCEPT ![i].state = st, ![i].by = why] ELSE req

RECURSIVE RejectEach(_, _, _)
RejectEach(req, S, why) ==
  IF S = {} THEN req
  ELSE LET i == CHOOSE j \in S : \A k \in S : j <= k
       IN RejectEach(Settle(req, i, "rejected", why), S \ {i}, why)

\* WebSocketConnector.rejectAll (part_011 lines 125-128)
RejectAll(x, why) ==
  [x EXCEPT !.req = RejectEach(x.req, x.pending, why), !.pending = {}]

NextStopId(r) == 1 + Cardinality({s \in StopIds : r.stopCall[s] # "none"})

\* new XxxConnectionManager(...); await this.connectionManager.start()
XBeginAttempt(W, a) ==
  LET m == W.n + 1
  IN [W EXCEPT !.n = m, !.cm[m] = CMStart(NewCM),
               !.x.connectionManager = m, !.x.mgrKind[m] = a,
               !.x.pc = "awaitStart", !.x.attempt = a, !.x.mgr = m,
               !.x.started = @ \cup {m}]

\* ---- cleanupResources ----

\* End of either cleanupResources, back in its caller.
RECURSIVE XCleanupEnd(_)

\* `await this.connectionManager.stop()` returned (finally: field cleared).
XAfterStop(W) ==
  XCleanupEnd(IF W.x.kind = "websocket"
                THEN [W EXCEPT !.x.connectionManager = 0, !.x.ws = 0]
                ELSE [W EXCEPT !.x.connectionManager = 0])

\* `if (this.connectionManager) await this.connectionManager.stop()`
XCleanupMgr(W) ==
  IF W.x.connectionManager # 0
    THEN LET m == W.x.connectionManager
             s == NextStopId(W.cm[m])
             W1 == [W EXCEPT !.cm[m] = CMStop(W.cm[m], s), !.x.stopId = s, !.x.mgr = m]
         IN IF W1.cm[m].stopCall[s] = "returned"
              THEN XAfterStop(W1)
              ELSE [W1 EXCEPT !.x.pc = "cleanupStop"]
    ELSE XCleanupEnd(W)

\* `await this.client.close()` settled; a throw is logged; finally: client = null.
XAfterClientClose(W, ok) ==
  LET c == W.x.client
      W1 == IF ok THEN W
            ELSE [W EXCEPT !.x.log = @ \cup {[text |-> "Error closing client",
                                             streamable |-> "none", sse |-> NoErr]}]
  IN XCleanupMgr([W1 EXCEPT !.x.client = 0, !.cl[c].state = "closed"])

\* BaseConnector.cleanupResources (http.ts lines 341-378)
XBaseCleanup(W) ==
  IF W.x.client # 0
    THEN [W EXCEPT !.cl[W.x.client].closeCalls = @ + 1, !.x.pc = "cleanupClose"]
    ELSE XCleanupMgr(W)

\* WebSocketConnector.cleanupResources from `this.receiverTask = null` on
\* (part_011 lines 172-185)
XWsCleanupRest(W) ==
  XCleanupMgr([W EXCEPT !.x = RejectAll([W.x EXCEPT !.receiverTask = "null"],
                                        "WebSocket disconnected")])

\* WebSocketConnector.cleanupResources (part_011 lines 168-171)
XWsCleanup(W) ==
  IF W.x.receiverTask = "pending"
    THEN [W EXCEPT !.x.pc = "awaitReceiver"]
    ELSE XWsCleanupRest(W)

XCleanup(W, after) ==
  LET W1 == [W EXCEPT !.x.after = after]
  IN IF W.x.kind = "websocket" THEN XWsCleanup(W1) ELSE XBaseCleanup(W1)

\* The catch block of an attempt rethrows x.err to connect()'s caller, or, in
\* HttpConnector.connect, into the fallback (http.ts lines 66-106).
XRethrow(W) ==
  IF W.x.kind = "http" /\ ~W.x.preferSse
    THEN IF W.x.attempt = "streamable-http"
           THEN XBeginAttempt([W EXCEPT !.x.fallbackReason = FallbackReason(W.x.err)], "sse")
           ELSE XCleanup([W EXCEPT !.x.log = @ \cup
                            {[text |-> "Failed to connect with both transports",
                              streamable |-> W.x.fallbackReason, sse |-> W.x.err]}],
                         "composite")
    ELSE XFinish(W, "threw", W.x.err)

XCleanupEnd(W) ==
  LET W1 == [W EXCEPT !.x.toolsCache = FALSE]
  IN CASE W.x.after = "rethrow" -> XRethrow(W1)
       [] W.x.after = "composite" -> XFinish(W1, "threw", CompositeError)
       [] OTHER -> XFinish([W1 EXCEPT !.x.connected = FALSE], "ok", NoErr)

\* Variant of XAttemptFailed that rethrows without cleaning up.
XAttemptFailed_NoCleanup(W, e) == XRethrow([W EXCEPT !.x.err = e])

\* catch (err) { await this.cleanupResources(); throw err }
XAttemptFailed(W, e) == XCleanup([W EXCEPT !.x.err = e], "rethrow")

\* WebSocketConnector.receiveLoop (part_011 lines 84-123): listeners on the
\* socket, the returned promise pending until the close event.
XReceiveLoop(x) ==
  IF x.ws = 0 THEN [x EXCEPT !.receiverTask = "resolved"]
  ELSE [x EXCEPT !.receiverTask = "pending"]

\* connect() resumed after `await this.connectionManager.start()`.
XAfterStart(W, class) ==
  LET m == W.x.mgr
      r == W.cm[m]
  IN IF r.startCall[1] = "returned"
       THEN IF W.x.kind = "websocket"
              THEN XFinish([W EXCEPT !.x = [XReceiveLoop([W.x EXCEPT !.ws = m])
                                              EXCEPT !.connected = TRUE]],
                           "ok", NoErr)
              ELSE [W EXCEPT !.x.client = m, !.cl[m].state = "connecting",
                             !.x.pc = "awaitHandshake"]
       ELSE XAttemptFailed(W, Err("establish", m, class))

\* Variant of XHandshakeOk that records the preferred transport, not the one used.
XHandshakeOk_Preferred(W) ==
  LET W1 == [W EXCEPT !.cl[W.x.client].state = "connected", !.x.connected = TRUE]
  IN XFinish(IF W.x.kind = "http"
               THEN [W1 EXCEPT !.x.transportType =
                       IF W.x.preferSse THEN "sse" ELSE "streamable-http"]
               ELSE W1,
             "ok", NoErr)

\* connect() resumed after `await this.client.connect(transport)` resolved.
XHandshakeOk(W) ==
  LET W1 == [W EXCEPT !.cl[W.x.client].state = "connected", !.x.connected = TRUE]
  IN XFinish(IF W.x.kind = "http"
               THEN [W1 EXCEPT !.x.transportType = W.x.attempt] ELSE W1,
             "ok", NoErr)

\* connect() of the three connectors up to the first suspension.
XConnect(W) ==
  LET W1 == [W EXCEPT !.x.op = "connect"]
  IN IF W.x.connected THEN XFinish(W1, "noop", NoErr)
     ELSE CASE W.x.kind = "stdio" -> XBeginAttempt(W1, "stdio")
            [] W.x.kind = "websocket" -> XBeginAttempt(W1, "websocket")
            [] OTHER -> XBeginAttempt(W1, IF W.x.preferSse THEN "sse" ELSE "streamable-http")

\* Variant of XDisconnect without the `connected` test.
XDisconnect_NoGuard(W) == XCleanup([W EXCEPT !.x.op = "disconnect"], "disconnect")

\* disconnect() (http.ts lines 227-237, part_011 lines 57-65)
XDisconnect(W) ==
  LET W1 == [W EXCEPT !.x.op = "disconnect"]
  IN IF ~W.x.connected THEN XFinish(W1, "noop", NoErr)
     ELSE XCleanup(W1, "disconnect")

\* publicIdentifier.transport (http.ts lines 172-178)
PublicTransport(x) == IF x.transportType = "null" THEN "unknown" ELSE x.transportType

\* Variant of XSocketClosed whose onClose only ends the receiver task.
XSocketClosed_NoReject(W, m) ==
  LET W1 == [W EXCEPT !.x.sock[m] = "closed"]
  IN IF W.x.sock[m] = "open" /\ W.x.ws = m /\ W.x.receiverTask = "pending"
       THEN LET W2 == [W1 EXCEPT !.x.receiverTask = "resolved"]
            IN IF W2.x.pc = "awaitReceiver" THEN XWsCleanupRest(W2) ELSE W2
       ELSE W1

\* The socket of manager m closes: the connector's onClose listener
\* (part_011 lines 116-120), then whoever awaits receiverTask.
XSocketClosed(W, m) ==
  LET W1 == [W EXCEPT !.x.sock[m] = "closed"]
  IN IF W.x.sock[m] = "open" /\ W.x.ws = m /\ W.x.receiverTask = "pending"
       THEN LET W2 == [W1 EXCEPT !.x = RejectAll([W1.x EXCEPT !.receiverTask = "resolved"],
                                                 "WebSocket closed")]
            IN IF W2.x.pc = "awaitReceiver" THEN XWsCleanupRest(W2) ELSE W2
       ELSE W1

\* ---- actions of the connector and of what it owns ----

Idle == cx.op = "none"

\* Managers a connect() may need.
MgrsNeeded == IF cx.kind = "http" /\ ~cx.preferSse THEN 2 ELSE 1

MgrLimit == IF cx.kind = "websocket" THEN MaxSockets ELSE MaxMgrs

Connect ==
  /\ Idle /\ (cx.connected \/ nMgrs + MgrsNeeded <= MgrLimit)
  /\ Apply(XConnect(World))

Disconnect ==
  /\ Idle
  /\ Apply(XDisconnect(World))

\* The manager's task steps, followed by the connector call they release.
AfterTaskStep(W, m, class) ==
  CASE W.x.pc = "awaitStart" /\ W.x.mgr = m /\ W.cm[m].startCall[1] # "pending" ->
         XAfterStart(W, class)
    [] W.x.pc = "cleanupStop" /\ W.x.mgr = m /\ W.cm[m].stopCall[W.x.stopId] = "returned" ->
         XAfterStop(W)
    [] OTHER -> W

MgrEstablishOk(m) ==
  /\ Exists(m) /\ cm[m].tpc[1] = "establishing"
  /\ LET W1 == [World EXCEPT !.cm[m] = CMEstablishOk(cm[m], 1),
                             !.x.sock[m] = IF cx.mgrKind[m] = "websocket" THEN "open" ELSE @]
     IN Apply(AfterTaskStep(W1, m, "none"))

MgrEstablishFail(m) ==
  /\ Exists(m) /\ cm[m].tpc[1] = "establishing"
  /\ \E class \in ErrClasses(cx.mgrKind[m]) :
       Apply(AfterTaskStep([World EXCEPT !.cm[m] = CMEstablishFail(cm[m], 1)], m, class))

\* closeConnection settles.  WebSocketConnectionManager.closeConnection
\* resolves on the socket's close event (websocket.ts lines 56-81) and never throws.
MgrCloseOk(m) ==
  /\ Exists(m) /\ cm[m].tpc[1] = "closing"
  /\ LET W1 == IF cx.mgrKind[m] = "websocket" THEN XSocketClosed(World, m) ELSE World
         W2 == [W1 EXCEPT !.cm[m] = CMCloseDone(W1.cm[m], 1, TRUE)]
     IN Apply(AfterTaskStep(W2, m, "none"))

MgrCloseFail(m) ==
  /\ Exists(m) /\ cm[m].tpc[1] = "closing" /\ cx.mgrKind[m] # "websocket"
  /\ Apply(AfterTaskStep([World EXCEPT !.cm[m] = CMCloseDone(cm[m], 1, FALSE)], m, "none"))

HandshakeOk ==
  /\ cx.pc = "awaitHandshake"
  /\ Apply(XHandshakeOk(World))

HandshakeFail ==
  /\ cx.pc = "awaitHandshake"
  /\ \E class \in ErrClasses(cx.attempt) :
       Apply(XAttemptFailed([World EXCEPT !.cl[cx.client].state = "failed",
                                          !.cl[cx.client].failed = TRUE],
                            Err("handshake", cx.mgr, class)))

ClientCloseOk ==
  /\ cx.pc = "cleanupClose"
  /\ Apply(XAfterClientClose(World, TRUE))

ClientCloseFail ==
  /\ cx.pc = "cleanupClose"
  /\ Apply(XAfterClientClose(World, FALSE))

\* The peer closes the socket.
PeerClose(m) ==
  /\ Exists(m) /\ cx.sock[m] = "open" /\ cm[m].tpc[1] = "waiting"
  /\ Apply(XSocketClosed(World, m))

\* ---- WebSocketConnector requests (part_011 lines 67-110) ----

\* sendRequest: throws when there is no socket; else a fresh id, the resolver
\* stored under it, the frame handed to the socket.
XSendRequest(x) ==
  IF x.ws = 0 THEN x
  ELSE LET i == x.nReq + 1
       IN [x EXCEPT !.nReq = i, !.pending = @ \cup {i},
                    !.req[i] = [NewReq EXCEPT !.state = "pending", !.sendCb = "waiting"]]

\* The callback of ws.send (lines 75-80).
XSendCallback(x, i, failed) ==
  LET x1 == [x EXCEPT !.req[i].sendCb = "done"]
  IN IF failed
       THEN [x1 EXCEPT !.pending = @ \ {i}, !.req = Settle(x1.req, i, "rejected", "send error")]
       ELSE x1

\* Frames the peer may send: any id (0: none; MaxReqs + 1: an id never
\* issued), carrying a result, an error or neither, or not JSON at all.
Frames == [id : 0..(MaxReqs + 1), kind : {"result", "error", "neither"}]
            \cup {[id |-> 0, kind |-> "nonjson"]}

\* onMessage, variant that settles the oldest pending request whatever the id.
XOnMessage_Fifo(x, f) ==
  IF f.kind = "nonjson" \/ x.pending = {} THEN x
  ELSE LET i == CHOOSE j \in x.pending : \A k \in x.pending : j <= k
           x1 == [x EXCEPT !.pending = @ \ {i}]
       IN CASE f.kind = "result" -> [x1 EXCEPT !.req = Settle(x.req, i, "resolved", "response")]
            [] f.kind = "error" -> [x1 EXCEPT !.req = Settle(x.req, i, "rejected", "response")]
            [] OTHER -> x1

\* onMessage (lines 89-110).
XOnMessage(x, f) ==
  IF f.kind = "nonjson" THEN x
  ELSE IF f.id # 0 /\ f.id \in x.pending
    THEN LET x1 == [x EXCEPT !.pending = @ \ {f.id}]
         IN CASE f.kind = "result" -> [x1 EXCEPT !.req = Settle(x.req, f.id, "resolved", "response")]
              [] f.kind = "error" -> [x1 EXCEPT !.req = Settle(x.req, f.id, "rejected", "response")]
              [] OTHER -> x1
    ELSE x

SendRequest ==
  /\ cx.kind = "websocket" /\ cx.nReq < MaxReqs
  /\ cx' = XSendRequest(cx)
  /\ UNCHANGED <<cm, nMgrs, cl>> /\ UNCHANGED appVars

SendOk(i) ==
  /\ cx.req[i].sendCb = "waiting" /\ cx.ws # 0 /\ cx.sock[cx.ws] = "open"
  /\ cx' = XSendCallback(cx, i, FALSE)
  /\ UNCHANGED <<cm, nMgrs, cl>> /\ UNCHANGED appVars

SendErr(i) ==
  /\ cx.req[i].sendCb = "waiting"
  /\ cx' = XSendCallback(cx, i, TRUE)
  /\ UNCHANGED <<cm, nMgrs, cl>> /\ UNCHANGED appVars

\* The message listener is on the socket from receiveLoop until onClose.
Listening(m) == cx.ws = m /\ cx.sock[m] = "open" /\ cx.receiverTask = "pending"

OnMessage(m, f) ==
  /\ Exists(m) /\ Listening(m)
  /\ cx' = XOnMessage(cx, f)
  /\ UNCHANGED <<cm, nMgrs, cl>> /\ UNCHANGED appVars

InitConn ==
  /\ nMgrs = 0
  /\ cm = [m \in Mgrs |-> NewCM]
  /\ \E k \in Kinds : \E p \in BOOLEAN :
       /\ (p => k = "http")
       /\ cx = NewConnector(k, p)
  /\ cl = [c \in Mgrs |-> NewClient]
  /\ reg = NoApp /\ sm = NoApp /\ ag = NoApp /\ tl = NoApp

\* ------------------------------------------------------------------------
\* A ConnectionManager driven directly by its callers
\* ------------------------------------------------------------------------

Start(m) ==
  /\ Exists(m) /\ cm[m].gen < MaxStarts
  /\ cm' = [cm EXCEPT ![m] = CMStart(cm[m])]
  /\ UNCHANGED <<nMgrs, cx, cl>> /\ UNCHANGED appVars

Stop(m, s) ==
  /\ Exists(m) /\ cm[m].stopCall[s] = "none"
  /\ \A s0 \in StopIds : s0 < s => cm[m].stopCall[s0] # "none"
  /\ cm' = [cm EXCEPT ![m] = CMStop(cm[m], s)]
  /\ UNCHANGED <<nMgrs, cx, cl>> /\ UNCHANGED appVars

TaskStep(m) ==
  /\ \E t \in Tasks : EstablishOk(m, t) \/ EstablishFail(m, t) \/ CloseOk(m, t) \/ CloseFail(m, t)
  /\ UNCHANGED <<nMgrs, cx, cl>> /\ UNCHANGED appVars

InitCM ==
  /\ nMgrs = 1
  /\ cm = [m \in Mgrs |-> NewCM]
  /\ cx = NewConnector("none", FALSE)
  /\ cl = [c \in Mgrs |-> NewClient]
  /\ reg = NoApp /\ sm = NoApp /\ ag = NoApp /\ tl = NoApp

NextCM ==
  \/ Start(1)
  \/ \E s \in StopIds : Stop(1, s)
  \/ \E t \in Tasks : EstablishOk(1, t) /\ UNCHANGED <<nMgrs, cx, cl>> /\ UNCHANGED appVars
  \/ \E t \in Tasks : EstablishFail(1, t) /\ UNCHANGED <<nMgrs, cx, cl>> /\ UNCHANGED appVars
  \/ \E t \in Tasks : CloseOk(1, t) /\ UNCHANGED <<nMgrs, cx, cl>> /\ UNCHANGED appVars
  \/ \E t \in Tasks : CloseFail(1, t) /\ UNCHANGED <<nMgrs, cx, cl>> /\ UNCHANGED appVars

vars == <<cm, nMgrs, cx, cl, reg, sm, ag, tl>>

SpecCM == InitCM /\ [][NextCM]_vars

\* The event loop delivers every I/O result; callers are free not to call.
FairCM == SpecCM /\ WF_vars(TaskStep(1))

NextConn ==
  \/ Connect
  \/ Disconnect
  \/ \E m \in Mgrs : MgrEstablishOk(m)
  \/ \E m \in Mgrs : MgrEstablishFail(m)
  \/ \E m \in Mgrs : MgrCloseOk(m)
  \/ \E m \in Mgrs : MgrCloseFail(m)
  \/ HandshakeOk
  \/ HandshakeFail
  \/ ClientCloseOk
  \/ ClientCloseFail
  \/ \E m \in Mgrs : PeerClose(m)
  \/ SendRequest
  \/ \E i \in ReqIds : SendOk(i)
  \/ \E i \in ReqIds : SendErr(i)
  \/ \E m \in Mgrs : \E f \in Frames : OnMessage(m, f)

SpecConn == InitConn /\ [][NextConn]_vars

\* The results of the I/O a call waits for: the task of a manager
\* establishing or closing, the protocol handshake, the close of the client.
ConnIO ==
  \/ \E m \in Mgrs : MgrEstablishOk(m) \/ MgrEstablishFail(m) \/ MgrCloseOk(m) \/ MgrCloseFail(m)
  \/ HandshakeOk \/ HandshakeFail
  \/ ClientCloseOk \/ ClientCloseFail

\* The event loop delivers every I/O result; callers are free not to call
\* and the peer is free to keep the socket open.
FairConn == SpecConn /\ WF_vars(ConnIO)

\* ------------------------------------------------------------------------
\* MCPClient (src/src/client.ts), MCPSession (src/unnamed/part_002),
\* BaseAdapter (src/unnamed/part_004)
\* ------------------------------------------------------------------------

MaxConnectors == 2      \* connectors one MCPClient builds

ServerNames == {"x", "y"}             \* names servers are configured under
ProtoName == "toString"               \* a name every object inherits from Object.prototype
CallNames == ServerNames \cup {ProtoName}
ConnIds == 1..MaxConnectors

\* A server entry of config.mcpServers: absent, one createConnectorFromConfig
\* builds a connector from, or one it cannot determine the connector type of.
ConfigKinds == {"valid", "invalid"}

\* A tool handed to the agent: its name and where it comes from (a server,
\* "meta" for the management tools, "extra" for additionalTools).
Tool(n, s) == [name |-> n, srv |-> s]

\* Tool names the servers offer.  Server "x" offers a and b; what "y" offers
\* is drawn when the system is set up.
RemoteOptions == {<<"a", "b">>, <<"a", "c">>, <<>>}

RECURSIVE MapSeq(_, _)
MapSeq(q, s) == IF q = <<>> THEN <<>> ELSE <<Tool(Head(q), s)>> \o MapSeq(Tail(q), s)

NoCall == [op |-> "none", status |-> "none", arg |-> "none", n |-> 0]

\* A connector as the registry sees it.
NewConn == [server |-> "none", connected |-> FALSE, toolsCache |-> FALSE, disconnected |-> FALSE]

\* MCPClient after construction with the servers of cfg (a function
\* name -> "undefined" or a ConfigKinds value).
NewClientRegistry(cfg, remoteY) ==
  [ config |-> cfg,
    sessions |-> [n \in ServerNames |-> 0],
    activeSessions |-> <<>>,
    nConn |-> 0,
    conn |-> [c \in ConnIds |-> NewConn],
    remote |-> [n \in ServerNames |-> IF n = "x" THEN <<"a", "b">> ELSE remoteY],
    ret |-> NoCall ]

SeqToSet(q) == {q[i] : i \in 1..Len(q)}

RECURSIVE FilterOut(_, _)
FilterOut(q, n) ==
  IF q = <<>> THEN <<>>
  ELSE IF Head(q) = n THEN FilterOut(Tail(q), n) ELSE <<Head(q)>> \o FilterOut(Tail(q), n)

\* getServerNames(): Object.keys(config.mcpServers ?? {})
GetServerNames(r) == {n \in ServerNames : r.config[n] # "undefined"}

\* servers[serverName]: an own entry, or what the object inherits.
ServerEntry(r, name) ==
  IF name \in ServerNames THEN r.config[name] ELSE "inherited"

\* addServer(name, serverConfig)
ClientAddServer(r, name, kind) == [r EXCEPT !.config[name] = kind]

\* Variant of ClientRemoveServer that also unregisters the open session.
ClientRemoveServer_Unregister(r, name) ==
  IF r.config[name] # "undefined"
    THEN [r EXCEPT !.config[name] = "undefined",
                   !.activeSessions = FilterOut(@, name),
                   !.sessions[name] = 0]
    ELSE r

\* removeServer(name)
ClientRemoveServer(r, name) ==
  IF r.config[name] # "undefined"
    THEN [r EXCEPT !.config[name] = "undefined",
                   !.activeSessions = FilterOut(@, name)]
    ELSE r

\* Variant of ClientCreateSession that registers a session without looking
\* the name up in the config.
ClientCreateSession_NoLookup(r, name, auto, io) ==
  LET c == r.nConn + 1
  IN [r EXCEPT !.nConn = c, !.conn[c].server = name, !.conn[c].connected = auto,
               !.activeSessions = IF name \in SeqToSet(@) THEN @ ELSE Append(@, name),
               !.ret = [op |-> "createSession", arg |-> name, n |-> c, status |-> "ok"]]

\* createSession(serverName, autoInitialize); io is what the connector meets:
\* "ok", "connectFail" (connect() throws) or "initFail" (initialize() throws).
ClientCreateSession(r, name, auto, io) ==
  LET entry == ServerEntry(r, name)
      call == [op |-> "createSession", arg |-> name, n |-> 0, status |-> "none"]
  IN IF entry = "undefined"
       THEN [r EXCEPT !.ret = [call EXCEPT !.status = "threw: not found in config"]]
     ELSE IF entry # "valid"
       THEN [r EXCEPT !.ret = [call EXCEPT !.status = "threw: cannot determine connector type"]]
     ELSE LET c == r.nConn + 1
              r1 == [r EXCEPT !.nConn = c, !.conn[c].server = name]
          IN IF ~auto
               THEN [r1 EXCEPT !.sessions[name] = c,
                               !.activeSessions = IF name \in SeqToSet(@) THEN @ ELSE Append(@, name),
                               !.ret = [call EXCEPT !.status = "ok", !.n = c]]
             ELSE IF io = "connectFail"
               THEN [r1 EXCEPT !.ret = [call EXCEPT !.status = "threw: connect"]]
             ELSE IF io = "initFail"
               THEN [r1 EXCEPT !.conn[c].connected = TRUE,
                               !.ret = [call EXCEPT !.status = "threw: initialize"]]
             ELSE [r1 EXCEPT !.conn[c].connected = TRUE, !.conn[c].toolsCache = TRUE,
                             !.sessions[name] = c,
                             !.activeSessions = IF name \in SeqToSet(@) THEN @ ELSE Append(@, name),
                             !.ret = [call EXCEPT !.status = "ok", !.n = c]]

CreateThrew(r) == r.ret.op = "createSession" /\ r.ret.status \notin {"ok", "none"}

\* Variant of ClientCloseSession in which the cleanup is skipped, and the
\* error raised, when disconnect() raises.
ClientCloseSession_NoFinally(r, name, ok) ==
  LET c == r.sessions[name]
  IN IF c = 0 THEN [r EXCEPT !.ret = [op |-> "closeSession", arg |-> name, n |-> 0, status |-> "noop"]]
     ELSE IF ~ok
       THEN [r EXCEPT !.conn[c].disconnected = TRUE,
                      !.ret = [op |-> "closeSession", arg |-> name, n |-> c, status |-> "threw"]]
     ELSE [r EXCEPT !.conn[c].disconnected = TRUE,
                    !.conn[c].connected = FALSE,
                    !.conn[c].toolsCache = FALSE,
                    !.sessions[name] = 0,
                    !.activeSessions = FilterOut(@, name),
                    !.ret = [op |-> "closeSession", arg |-> name, n |-> c, status |-> "ok"]]

\* Variant of ClientCloseSession that deletes the session and keeps the name
\* in activeSessions.
ClientCloseSession_KeepActive(r, name, ok) ==
  LET c == r.sessions[name]
  IN IF c = 0 THEN [r EXCEPT !.ret = [op |-> "closeSession", arg |-> name, n |-> 0, status |-> "noop"]]
     ELSE [r EXCEPT !.conn[c].disconnected = TRUE,
                    !.conn[c].connected = IF ok THEN FALSE ELSE @,
                    !.conn[c].toolsCache = IF ok THEN FALSE ELSE @,
                    !.sessions[name] = 0,
                    !.ret = [op |-> "closeSession", arg |-> name, n |-> c, status |-> "ok"]]

\* closeSession(serverName); ok: whether session.disconnect() returned.
ClientCloseSession(r, name, ok) ==
  LET c == r.sessions[name]
  IN IF c = 0 THEN [r EXCEPT !.ret = [op |-> "closeSession", arg |-> name, n |-> 0, status |-> "noop"]]
     ELSE [r EXCEPT !.conn[c].disconnected = TRUE,
                    !.conn[c].connected = IF ok THEN FALSE ELSE @,
                    !.conn[c].toolsCache = IF ok THEN FALSE ELSE @,
                    !.sessions[name] = 0,
                    !.activeSessions = FilterOut(@, name),
                    !.ret = [op |-> "closeSession", arg |-> name, n |-> c, status |-> "ok"]]

\* client.createAllSessions(): one createSession per configured server, in
\* key order; the first one that throws ends the call.
RECURSIVE CreateAllSessions(_, _, _)
CreateAllSessions(r, names, io) ==
  IF names = <<>> THEN r
  ELSE LET r1 == ClientCreateSession(r, Head(names), TRUE, io[Head(names)])
       IN IF CreateThrew(r1) THEN r1 ELSE CreateAllSessions(r1, Tail(names), io)

ConfigKeys(r) == IF "x" \in GetServerNames(r)
                   THEN (IF "y" \in GetServerNames(r) THEN <<"x", "y">> ELSE <<"x">>)
                   ELSE (IF "y" \in GetServerNames(r) THEN <<"y">> ELSE <<>>)

\* closeAllSessions() (client.ts lines 142-162): closeSession for every key
\* of the session map, each inside its own try/catch, so that the call
\* returns whatever a closeSession does; ok[n]: whether the disconnect() of
\* n's session returned.
RECURSIVE CloseAllSessions(_, _, _)
CloseAllSessions(r, names, ok) ==
  IF names = <<>> THEN r
  ELSE CloseAllSessions(ClientCloseSession(r, Head(names), ok[Head(names)]), Tail(names), ok)

SessionKeys(r) == IF r.sessions["x"] # 0
                    THEN (IF r.sessions["y"] # 0 THEN <<"x", "y">> ELSE <<"x">>)
                    ELSE (IF r.sessions["y"] # 0 THEN <<"y">> ELSE <<>>)

\* ------------------------------------------------------------------------
\* ServerManager (src/unnamed/part_008) and its management tools
\* (src/src/managers/tools/*.ts, src/unnamed/part_007)
\* ------------------------------------------------------------------------

\* The five tools the `tools` getter builds when none were supplied.
DefaultManagementTools ==
  << Tool("add_mcp_server_from_config", "meta"), Tool("list_mcp_servers", "meta"),
     Tool("connect_to_mcp_server", "meta"), Tool("get_active_mcp_server", "meta"),
     Tool("disconnect_from_mcp_server", "meta") >>

\* A slot that may hold a list: serverTools[name], overrideManagementTools.
Undefined == [def |-> FALSE, list |-> <<>>]
Defined(q) == [def |-> TRUE, list |-> q]

\* overrideManagementTools as the constructor (or setManagementTools) may set it.
OverrideOptions == {Undefined, Defined(<<Tool("add_mcp_server_from_config", "meta")>>)}

\* ServerManager after construction; connectorToolMap is the adapter's cache.
NewServerManager(ov) ==
  [ activeServer |-> "null",
    serverTools |-> [n \in ServerNames |-> Undefined],
    initializedServers |-> {},
    overrideManagementTools |-> ov,
    connectorToolMap |-> {},
    ret |-> NoCall ]

\* The registry and the manager as one value; out/tools carry what an
\* awaited call gave back.
AppWorld == [reg |-> reg, sm |-> sm, out |-> "none", tools |-> <<>>]

\* Variant of SMTools that appends the tools of a cached server whether or
\* not it is the active one.
SMTools_AnyCached(m) ==
  LET managementTools == IF m.overrideManagementTools.def
                           THEN m.overrideManagementTools.list
                           ELSE DefaultManagementTools
      cached == {n \in ServerNames : m.serverTools[n].def}
  IN IF cached # {}
       THEN managementTools \o m.serverTools[CHOOSE n \in cached : TRUE].list
       ELSE managementTools

\* ServerManager.tools (part_008 lines 120-142)
SMTools(m) ==
  LET managementTools == IF m.overrideManagementTools.def
                           THEN m.overrideManagementTools.list
                           ELSE DefaultManagementTools
  IN IF m.activeServer # "null" /\ m.serverTools[m.activeServer].def
       THEN managementTools \o m.serverTools[m.activeServer].list
       ELSE managementTools

\* adapter.createToolsFromConnectors([connector]) (part_004 lines 69-164);
\* io: whether a connector.initialize() made on the way succeeds.
CreateToolsFromConnector(W, c, io) ==
  LET srv == W.reg.conn[c].server
      converted == MapSeq(W.reg.remote[srv], srv)
      cache == [W EXCEPT !.sm.connectorToolMap = @ \cup {c}, !.out = "ok", !.tools = converted]
  IN IF c \in W.sm.connectorToolMap THEN [W EXCEPT !.out = "ok", !.tools = converted]
     ELSE IF ~W.reg.conn[c].toolsCache THEN [W EXCEPT !.out = "threw", !.tools = <<>>]
     ELSE IF converted # <<>> THEN cache
     ELSE IF io = "ok" THEN cache
     ELSE [W EXCEPT !.out = "ok", !.tools = <<>>]

\* ConnectMCPServerTool._call (connect_mcp_server.ts lines 22-56)
ConnectMCPServerTool(W, serverName, io, fio) ==
  LET call == [op |-> "connect_to_mcp_server", arg |-> serverName, n |-> 0, status |-> "none"]
  IN IF serverName \notin GetServerNames(W.reg)
       THEN [W EXCEPT !.sm.ret = [call EXCEPT !.status = "not found"]]
     ELSE IF W.sm.activeServer = serverName
       THEN [W EXCEPT !.sm.ret = [call EXCEPT !.status = "already connected"]]
     ELSE
       LET W1 == IF W.reg.sessions[serverName] # 0 THEN W
                 ELSE [W EXCEPT !.reg = ClientCreateSession(W.reg, serverName, TRUE, io)]
       IN IF W.reg.sessions[serverName] = 0 /\ CreateThrew(W1.reg)
            THEN [W1 EXCEPT !.sm.ret = [call EXCEPT !.status = "failed"]]
          ELSE
            LET W2 == [W1 EXCEPT !.sm.activeServer = serverName]
            IN IF W2.sm.serverTools[serverName].def
                 THEN LET W3 == CreateToolsFromConnector(W2, W2.reg.sessions[serverName], fio)
                      IN IF W3.out = "threw"
                           THEN [W3 EXCEPT !.sm.ret = [call EXCEPT !.status = "failed"]]
                           ELSE [W3 EXCEPT !.sm.serverTools[serverName] = Defined(W3.tools),
                                           !.sm.initializedServers = @ \cup {serverName},
                                           !.sm.ret = [call EXCEPT !.status = "connected",
                                                                   !.n = Len(W3.tools)]]
                 ELSE [W2 EXCEPT !.sm.ret = [call EXCEPT !.status = "connected", !.n = 0]]

\* ReleaseMCPServerConnectionTool._call (part_007 lines 16-23)
\* Variant of ReleaseMCPServerConnectionTool that also tears the session of
\* the active server down.
ReleaseMCPServerConnectionTool_Teardown(W) ==
  LET call == [op |-> "disconnect_from_mcp_server", arg |-> W.sm.activeServer, n |-> 0,
               status |-> "none"]
  IN IF W.sm.activeServer = "null"
       THEN [W EXCEPT !.sm.ret = [call EXCEPT !.status = "nothing to disconnect"]]
       ELSE [W EXCEPT !.reg = ClientCloseSession(W.reg, W.sm.activeServer, TRUE),
                      !.sm.serverTools[W.sm.activeServer] = Undefined,
                      !.sm.activeServer = "null",
                      !.sm.ret = [call EXCEPT !.status = "disconnected"]]

ReleaseMCPServerConnectionTool(W) ==
  LET call == [op |-> "disconnect_from_mcp_server", arg |-> W.sm.activeServer, n |-> 0,
               status |-> "none"]
  IN IF W.sm.activeServer = "null"
       THEN [W EXCEPT !.sm.ret = [call EXCEPT !.status = "nothing to disconnect"]]
       ELSE [W EXCEPT !.sm.activeServer = "null",
                      !.sm.ret = [call EXCEPT !.status = "disconnected"]]

\* AcquireActiveMCPServerTool._call (connect_mcp_server.ts lines 74-80)
AcquireActiveMCPServerTool(W) ==
  [W EXCEPT !.sm.ret = [op |-> "get_active_mcp_server", arg |-> W.sm.activeServer, n |-> 0,
                        status |-> IF W.sm.activeServer = "null" THEN "none active"
                                   ELSE "active"]]

\* ListMCPServersTool._call (list_mcp_servers.ts lines 17-40)
ListMCPServersTool(W) ==
  [W EXCEPT !.sm.ret = [op |-> "list_mcp_servers", arg |-> W.sm.activeServer,
                        n |-> Cardinality(GetServerNames(W.reg)),
                        status |-> IF GetServerNames(W.reg) = {} THEN "none defined"
                                   ELSE "listed"]]

\* AddMCPServerFromConfigTool._call (add_server_from_config.ts lines 28-59)
\* Variant of AddMCPServerFromConfigTool that leaves the active server as it was.
AddMCPServerFromConfigTool_NoActivate(W, serverName, kind, io, fio) ==
  LET call == [op |-> "add_mcp_server_from_config", arg |-> serverName, n |-> 0,
               status |-> "none"]
      W1 == [W EXCEPT !.reg = ClientCreateSession(ClientAddServer(W.reg, serverName, kind),
                                                  serverName, TRUE, io)]
  IN IF CreateThrew(W1.reg)
       THEN [W1 EXCEPT !.sm.ret = [call EXCEPT !.status = "failed"]]
     ELSE LET W2 == CreateToolsFromConnector(W1, W1.reg.sessions[serverName], fio)
          IN IF W2.out = "threw"
               THEN [W2 EXCEPT !.sm.ret = [call EXCEPT !.status = "failed"]]
               ELSE [W2 EXCEPT !.sm.serverTools[serverName] = Defined(W2.tools),
                               !.sm.initializedServers = @ \cup {serverName},
                               !.sm.ret = [call EXCEPT !.status = "added", !.n = Len(W2.tools)]]

AddMCPServerFromConfigTool(W, serverName, kind, io, fio) ==
  LET call == [op |-> "add_mcp_server_from_config", arg |-> serverName, n |-> 0,
               status |-> "none"]
      W1 == [W EXCEPT !.reg = ClientCreateSession(ClientAddServer(W.reg, serverName, kind),
                                                  serverName, TRUE, io)]
  IN IF CreateThrew(W1.reg)
       THEN [W1 EXCEPT !.sm.ret = [call EXCEPT !.status = "failed"]]
     ELSE LET W2 == CreateToolsFromConnector(W1, W1.reg.sessions[serverName], fio)
          IN IF W2.out = "threw"
               THEN [W2 EXCEPT !.sm.ret = [call EXCEPT !.status = "failed"]]
               ELSE [W2 EXCEPT !.sm.serverTools[serverName] = Defined(W2.tools),
                               !.sm.initializedServers = @ \cup {serverName},
                               !.sm.activeServer = serverName,
                               !.sm.ret = [call EXCEPT !.status = "added", !.n = Len(W2.tools)]]

\* One turn of the loop of prefetchServerTools (part_008 lines 71-117).
PrefetchOne(W, serverName, io, fio) ==
  LET W1 == IF W.reg.sessions[serverName] # 0 THEN W
            ELSE [W EXCEPT !.reg = ClientCreateSession(W.reg, serverName, TRUE, io)]
      c == W1.reg.sessions[serverName]
  IN IF c = 0 THEN W1
     ELSE LET W2 == CreateToolsFromConnector(W1, c, fio)
          IN IF W2.out = "threw" THEN W2
             ELSE IF ~W2.sm.serverTools[serverName].def
                     \/ W2.sm.serverTools[serverName].list # W2.tools
               THEN [W2 EXCEPT !.sm.serverTools[serverName] = Defined(W2.tools),
                               !.sm.initializedServers = @ \cup {serverName}]
               ELSE W2

\* Variant of PrefetchEach that gives up at the first server whose session
\* or tools cannot be had.
RECURSIVE PrefetchEach_StopAtFailure(_, _, _, _)
PrefetchEach_StopAtFailure(W, S, io, fio) ==
  IF S = {} THEN W
  ELSE LET n == CHOOSE k \in S : \A j \in S : k = "x" \/ j # "x"
           W1 == PrefetchOne(W, n, io[n], fio[n])
       IN IF W1.reg.sessions[n] = 0 \/ W1.out = "threw" THEN W1
          ELSE PrefetchEach_StopAtFailure(W1, S \ {n}, io, fio)

\* The loop over getServerNames() (part_008 lines 69-117), in key order.
RECURSIVE PrefetchEach(_, _, _, _)
PrefetchEach(W, S, io, fio) ==
  IF S = {} THEN W
  ELSE LET n == CHOOSE k \in S : \A j \in S : k = "x" \/ j # "x"
       IN PrefetchEach(PrefetchOne(W, n, io[n], fio[n]), S \ {n}, io, fio)

\* prefetchServerTools() (part_008 lines 68-118)
PrefetchServerTools(W, io, fio) ==
  LET W1 == PrefetchEach(W, GetServerNames(W.reg), io, fio)
  IN [W1 EXCEPT !.sm.ret = [op |-> "prefetchServerTools", arg |-> "none", n |-> 0,
                            status |-> "returned"]]

\* ---- the registry driven by its callers, one call at a time ----

IOs == {"ok", "connectFail", "initFail"}
FetchIOs == {"ok", "fail"}

\* Room for the connectors a call may build.
CanBuild(k) == reg.nConn + k <= MaxConnectors

ApplyClient(r) == reg' = r /\ UNCHANGED <<cm, nMgrs, cx, cl, sm, ag, tl>>

AddServer(n, kind) ==
  /\ CanBuild(0)
  /\ ApplyClient([ClientAddServer(reg, n, kind) EXCEPT
                 !.ret = [op |-> "addServer", arg |-> n, n |-> 0, status |-> "ok"]])

RemoveServer(n) ==
  /\ CanBuild(0)
  /\ ApplyClient([ClientRemoveServer(reg, n) EXCEPT
                 !.ret = [op |-> "removeServer", arg |-> n, n |-> 0, status |-> "ok"]])

CreateSession(name, auto, io) ==
  /\ CanBuild(1)
  /\ (io # "ok" => auto)
  /\ ApplyClient(ClientCreateSession(reg, name, auto, io))

CloseSession(n, ok) ==
  /\ (~ok => reg.sessions[n] # 0)
  /\ ApplyClient(ClientCloseSession(reg, n, ok))

CreateAll(io) ==
  /\ CanBuild(Len(ConfigKeys(reg)))
  /\ ApplyClient([CreateAllSessions(reg, ConfigKeys(reg), io) EXCEPT
                 !.ret = [op |-> "createAllSessions", arg |-> "none", n |-> 0,
                          status |-> IF CreateThrew(CreateAllSessions(reg, ConfigKeys(reg), io))
                                       THEN "threw" ELSE "ok"]])

CloseAll(ok) ==
  /\ CanBuild(0)
  /\ ApplyClient(LET r == CloseAllSessions(reg, SessionKeys(reg), ok)
                 IN [r EXCEPT !.ret = [op |-> "closeAllSessions", arg |-> "none", n |-> 0,
                                       status |-> "ok"]])

InitClient ==
  /\ nMgrs = 0
  /\ cm = [m \in Mgrs |-> NewCM]
  /\ cx = NewConnector("none", FALSE)
  /\ cl = [c \in Mgrs |-> NewClient]
  /\ \E cfg \in [ServerNames -> ConfigKinds \cup {"undefined"}] :
       reg = NewClientRegistry(cfg, <<"a", "c">>)
  /\ sm = NoApp /\ ag = NoApp /\ tl = NoApp

NextClient ==
  \/ \E n \in ServerNames : \E kind \in ConfigKinds : AddServer(n, kind)
  \/ \E n \in ServerNames : RemoveServer(n)
  \/ \E name \in CallNames : \E auto \in BOOLEAN : \E io \in IOs : CreateSession(name, auto, io)
  \/ \E n \in ServerNames : \E ok \in BOOLEAN : CloseSession(n, ok)
  \/ \E io \in [ServerNames -> IOs] : CreateAll(io)
  \/ \E ok \in [ServerNames -> BOOLEAN] : CloseAll(ok)

SpecClient == InitClient /\ [][NextClient]_vars

\* ---- the manager's tools called one at a time, as the agent loop calls them ----

\* The registry keeps no record of the calls a tool made on it.
ApplyApp(W) ==
  /\ reg' = [W.reg EXCEPT !.ret = NoCall]
  /\ sm' = W.sm
  /\ UNCHANGED <<cm, nMgrs, cx, cl, ag, tl>>

CallConnect(name, io, fio) ==
  /\ CanBuild(1)
  /\ ApplyApp(ConnectMCPServerTool(AppWorld, name, io, fio))

CallDisconnect ==
  /\ CanBuild(0)
  /\ ApplyApp(ReleaseMCPServerConnectionTool(AppWorld))

CallGetActive ==
  /\ CanBuild(0)
  /\ ApplyApp(AcquireActiveMCPServerTool(AppWorld))

CallList ==
  /\ CanBuild(0)
  /\ ApplyApp(ListMCPServersTool(AppWorld))

CallAdd(name, kind, io, fio) ==
  /\ CanBuild(1)
  /\ ApplyApp(AddMCPServerFromConfigTool(AppWorld, name, kind, io, fio))

Prefetch(io, fio) ==
  /\ CanBuild(Cardinality(ServerNames))
  /\ ApplyApp(PrefetchServerTools(AppWorld, io, fio))

InitSM ==
  /\ nMgrs = 0
  /\ cm = [m \in Mgrs |-> NewCM]
  /\ cx = NewConnector("none", FALSE)
  /\ cl = [c \in Mgrs |-> NewClient]
  /\ \E S \in SUBSET ServerNames : \E remoteY \in RemoteOptions :
       reg = NewClientRegistry([n \in ServerNames |-> IF n \in S THEN "valid" ELSE "undefined"],
                               remoteY)
  /\ \E ov \in OverrideOptions : sm = NewServerManager(ov)
  /\ ag = NoApp /\ tl = NoApp

NextSM ==
  \/ \E name \in CallNames : \E io \in IOs : \E fio \in FetchIOs : CallConnect(name, io, fio)
  \/ CallDisconnect
  \/ CallGetActive
  \/ CallList
  \/ \E name \in ServerNames : \E kind \in ConfigKinds : \E io \in IOs : \E fio \in FetchIOs :
       CallAdd(name, kind, io, fio)
  \/ \E io \in [ServerNames -> IOs] : \E fio \in [ServerNames -> FetchIOs] : Prefetch(io, fio)

SpecSM == InitSM /\ [][NextSM]_vars

\* ---- the manager's client used by its owner as well ----

\* manager.client is the MCPClient the caller built and handed to the
\* ServerManager (part_008 constructor): the caller creates a session on it
\* without initialising it, client.createSession(name, false).
DirectCreateSession(name) ==
  /\ CanBuild(1)
  /\ reg' = [ClientCreateSession(reg, name, FALSE, "ok") EXCEPT !.ret = NoCall]
  /\ UNCHANGED <<cm, nMgrs, cx, cl, sm, ag, tl>>

\* connect_to_mcp_server, which builds a connector only when the name is
\* configured and has no session.
ConnectShared(name, io, fio) ==
  /\ CanBuild(IF name \in GetServerNames(reg) /\ reg.sessions[name] = 0 THEN 1 ELSE 0)
  /\ ApplyApp(ConnectMCPServerTool(AppWorld, name, io, fio))

NextShared ==
  \/ \E name \in CallNames : \E io \in IOs : \E fio \in FetchIOs : ConnectShared(name, io, fio)
  \/ CallDisconnect
  \/ \E io \in [ServerNames -> IOs] : \E fio \in [ServerNames -> FetchIOs] : Prefetch(io, fio)
  \/ \E name \in ServerNames : DirectCreateSession(name)

SpecShared == InitSM /\ [][NextShared]_vars

\* ------------------------------------------------------------------------
\* LangChainAdapter (src/unnamed/part_006): the function of a converted tool
\* ------------------------------------------------------------------------

\* A JavaScript string is a sequence of pieces; a piece is a text the server
\* or the code supplies, kept whole, so that "contains" is a test on pieces.

MaxContent == 2         \* items in the content of one CallToolResult

Texts == {"t1", "t2"}   \* texts a server puts in its answers and errors

\* Values a promise of callTool rejects with: an Error (SDK client, closed or
\* unconnected socket), and what a WebSocket frame carries under "error"
\* (part_011 102-105): a JSON-RPC error object, a string, or null.
JsError(m) == [t |-> "Error", message |-> m]
JsTypeError(m) == [t |-> "TypeError", message |-> m]
JsString(s) == [t |-> "string", message |-> s]
JsObject(m) == [t |-> "object", message |-> m]
JsNull == [t |-> "null", message |-> <<>>]
Rejections ==
  {JsError(<<m>>) : m \in Texts} \cup {JsString(<<m>>) : m \in Texts}
    \cup {JsObject(<<m>>) : m \in Texts} \cup {JsNull}

\* Items of a content array.
ContentItems ==
  {[type |-> "text", text |-> m] : m \in Texts}
    \cup {[type |-> "image", text |-> "d1"],
          [type |-> "resource.text", text |-> "r1"],
          [type |-> "resource.blob", text |-> "b1"],
          [type |-> "resource.none", text |-> "undefined"],
          [type |-> "audio", text |-> "a1"]}

ContentLists == UNION {[1..n -> ContentItems] : n \in 0..MaxContent}

\* What callTool resolves with: isError and content may each be absent.
CallToolResults ==
  [isError : BOOLEAN, content : [def : {TRUE}, list : ContentLists]]
    \cup [isError : BOOLEAN, content : {[def |-> FALSE, list |-> <<>>]}]

\* String(v) and `${v}`.
JsToString(v) ==
  CASE v.t = "Error" -> <<"Error: ">> \o v.message
    [] v.t = "TypeError" -> <<"TypeError: ">> \o v.message
    [] v.t = "string" -> v.message
    [] v.t = "object" -> <<"[object Object]">>
    [] v.t = "null" -> <<"null">>

\* `${content}`: undefined, or Array.prototype.toString, which joins the
\* String() of the items with commas; an item is a plain object.
RECURSIVE JoinItems(_)
JoinItems(q) ==
  IF q = <<>> THEN <<>>
  ELSE IF Len(q) = 1 THEN <<"[object Object]">>
  ELSE <<"[object Object]", ",">> \o JoinItems(Tail(q))

ContentToString(c) == IF c.def THEN JoinItems(c.list) ELSE <<"undefined">>

\* The loop of parseMcpToolResult: decoded so far, or the Error thrown.
RECURSIVE Decode(_, _)
Decode(q, decoded) ==
  IF q = <<>> THEN [threw |-> FALSE, value |-> decoded]
  ELSE LET item == Head(q) IN
    CASE item.type \in {"text", "image", "resource.text", "resource.blob"} ->
           Decode(Tail(q), decoded \o <<item.text>>)
      [] item.type = "resource.none" ->
           [threw |-> TRUE,
            value |-> JsError(<<"Unexpected resource type: ", "undefined">>)]
      [] OTHER ->
           [threw |-> TRUE,
            value |-> JsError(<<"Unexpected content type: ", item.type>>)]

ParseMcpToolResult(toolResult) ==
  IF toolResult.isError
  THEN [threw |-> TRUE,
        value |-> JsError(<<"Tool execution failed: ">>
                            \o ContentToString(toolResult.content))]
  ELSE IF ~toolResult.content.def \/ Len(toolResult.content.list) = 0
  THEN [threw |-> TRUE, value |-> JsError(<<"Tool execution returned no content">>)]
  ELSE Decode(toolResult.content.list, <<>>)

\* The catch block of the tool's function: reading err.message of null is a
\* TypeError raised inside the handler, which leaves the function.
ToolCatch(err) ==
  IF err.t = "null"
  THEN [threw |-> TRUE,
        value |-> JsTypeError(<<"Cannot read properties of null (reading 'message')">>)]
  ELSE [threw |-> FALSE, value |-> <<"Error executing MCP tool: ">> \o JsToString(err)]

\* func of the DynamicStructuredTool: out is what callTool did.
ToolFunc(out) ==
  IF out.rejected THEN ToolCatch(out.err)
  ELSE LET p == ParseMcpToolResult(out.result) IN
       IF p.threw THEN ToolCatch(p.value) ELSE p

\* What one callTool does: rejects with err, or resolves with result.
NoResult == [isError |-> FALSE, content |-> [def |-> FALSE, list |-> <<>>]]
CallOutcomes ==
  {[rejected |-> TRUE, err |-> e, result |-> NoResult] : e \in Rejections}
    \cup {[rejected |-> FALSE, err |-> JsNull, result |-> r] : r \in CallToolResults}

\* The tool before any call.
NewTool ==
  [calls |-> 0, out |-> [rejected |-> FALSE, err |-> JsNull, result |-> NoResult],
   threw |-> FALSE, value |-> <<>>]

\* One invocation of the tool by the agent loop.
InvokeTool(out) ==
  /\ LET r == ToolFunc(out) IN
       tl' = [calls |-> 1, out |-> out, threw |-> r.threw,
              value |-> IF r.threw THEN JsToString(r.value) ELSE r.value]
  /\ UNCHANGED <<reg, sm, ag>>
  /\ UNCHANGED connVars

InitTool ==
  /\ nMgrs = 0
  /\ cm = [m \in Mgrs |-> NewCM]
  /\ cx = NewConnector("none", FALSE)
  /\ cl = [c \in Mgrs |-> NewClient]
  /\ reg = NoApp /\ sm = NoApp /\ ag = NoApp
  /\ tl = NewTool

NextTool == \E out \in CallOutcomes : InvokeTool(out)

SpecTool == InitTool /\ [][NextTool]_vars

\* ------------------------------------------------------------------------
\* MCPAgent (src/unnamed/part_003): initialize, stream, streamEvents, close
\* ------------------------------------------------------------------------

MaxSteps == 3           \* the configured maxSteps of the agent

\* maxSteps argument of one call: -1 stands for undefined.
StepArgs == {-1, 0, 1}

\* additionalTools of the agent; "z" is a tool with returnDirect set.
AdditionalOptions == {<<>>, <<Tool("z", "extra")>>, <<Tool("c", "extra")>>}
ReturnDirect(t) == t.srv = "extra" /\ t.name = "z"

Names(q) == {q[i].name : i \in 1..Len(q)}

\* Object.fromEntries(tools.map(t => [t.name, t])), as the set of its
\* values: the last tool of a name wins.
NameToToolMap(q) ==
  {q[i] : i \in {k \in 1..Len(q) : \A j \in 1..Len(q) : q[j].name = q[k].name => j <= k}}

\* Results of a run.
NoOutput == "No output generated"
MaxStepsResult == "Agent stopped after reaching the maximum number of steps"
Outputs == {"undefined", "", "text"}

\* MCPAgent after construction.  mode: server manager, client, or direct
\* connector; connector: the direct connector (kind, connected, toolsCache,
\* whether its disconnect() has returned).
NewAgent(mode, additional, auto, conn) ==
  [ mode |-> mode, additionalTools |-> additional, autoInitialize |-> auto,
    connector |-> conn,
    initialized |-> FALSE, executor |-> FALSE, tools |-> <<>>, plan |-> <<>>, sysmsg |-> {},
    pc |-> "idle", method |-> "none", manageConnector |-> FALSE, initializedHere |-> FALSE,
    steps |-> 0, stepNum |-> 0, map |-> {}, result |-> "", ended |-> "none",
    output |-> "undefined", initThrew |-> FALSE, rebuilt |-> FALSE, closeCalls |-> 0,
    called |-> [absent |-> FALSE, stale |-> FALSE] ]

\* The agent and what it works on, as one value.
AgentWorld == [a |-> ag, W |-> AppWorld, ok |-> TRUE]

\* `this._tools = serverManager.tools; this._tools.push(...additionalTools)`:
\* when the getter returned the overrideManagementTools array itself, the
\* push lands in the manager's array.
TakeManagerTools(S) ==
  LET m == S.W.sm
      current == SMTools(m)
      same == m.overrideManagementTools.def
                /\ ~(m.activeServer # "null" /\ m.serverTools[m.activeServer].def)
      tools == current \o S.a.additionalTools
  IN [S EXCEPT !.a.tools = tools,
               !.W.sm.overrideManagementTools.list = IF same THEN tools ELSE @]

\* createSystemMessageFromTools + createAgent (lines 194-240)
CreateAgent(S) ==
  [S EXCEPT !.a.sysmsg = Names(S.a.tools), !.a.plan = S.a.tools, !.a.executor = TRUE]

RECURSIVE ToolsOfSessions(_, _)
ToolsOfSessions(r, names) ==
  IF names = <<>> THEN <<>>
  ELSE MapSeq(r.remote[Head(names)], Head(names)) \o ToolsOfSessions(r, Tail(names))

\* initialize() (lines 129-192); io: what connecting each server does.
AgentInitialize(S, io) ==
  IF S.a.mode = "manager"
    THEN [CreateAgent(TakeManagerTools(S)) EXCEPT !.a.initialized = TRUE]
  ELSE IF S.a.mode = "client"
    THEN LET r1 == IF S.W.reg.activeSessions = <<>>
                     THEN CreateAllSessions(S.W.reg, ConfigKeys(S.W.reg), io)
                     ELSE S.W.reg
         IN IF CreateThrew(r1) THEN [S EXCEPT !.W.reg = r1, !.ok = FALSE]
            ELSE LET S1 == [S EXCEPT !.W.reg = r1,
                                     !.a.tools = ToolsOfSessions(r1, r1.activeSessions)
                                                   \o S.a.additionalTools]
                 IN [CreateAgent(S1) EXCEPT !.a.initialized = TRUE]
  ELSE LET c == S.a.connector
           c1 == IF c.connected THEN c
                 ELSE IF io["x"] = "ok" THEN [c EXCEPT !.connected = TRUE] ELSE c
       IN IF ~c1.connected THEN [S EXCEPT !.ok = FALSE]
          ELSE IF ~c1.toolsCache THEN [S EXCEPT !.a.connector = c1, !.ok = FALSE]
          ELSE LET S1 == [S EXCEPT !.a.connector = c1,
                                   !.a.tools = MapSeq(<<"a", "b">>, "x")
                                                 \o S.a.additionalTools]
               IN [CreateAgent(S1) EXCEPT !.a.initialized = TRUE]

\* close() (lines 526-550) up to the connector's disconnect(); a connected
\* WebSocketConnector waits for its receive loop there.
AgentClose(S) ==
  LET S1 == [S EXCEPT !.a.executor = FALSE, !.a.tools = <<>>, !.a.closeCalls = @ + 1]
  IN IF S.a.mode # "connector"
       THEN [S1 EXCEPT !.W.reg = CloseAllSessions(S.W.reg, SessionKeys(S.W.reg),
                                                  [n \in ServerNames |-> TRUE]),
                       !.W.sm.connectorToolMap = IF S.a.mode = "manager" THEN {} ELSE @,
                       !.a.initialized = FALSE]
     ELSE IF S.a.connector.connected /\ S.a.connector.kind = "ws"
       THEN [S1 EXCEPT !.a.pc = "awaitReceiver"]
     ELSE [S1 EXCEPT !.a.connector.connected = FALSE, !.a.connector.toolsCache = FALSE,
                     !.a.initialized = FALSE]

\* The start of stream() and streamEvents() (lines 332-347, 568-586).
AgentStart(S, method, maxSteps, manageConnector, io) ==
  LET a0 == [S.a EXCEPT !.method = method, !.manageConnector = manageConnector,
                        !.steps = IF maxSteps = -1 THEN MaxSteps ELSE maxSteps,
                        !.stepNum = 0, !.result = "", !.ended = "none"]
      S0 == [S EXCEPT !.a = a0]
      init == ~a0.initialized /\ (manageConnector \/ a0.autoInitialize)
      S1 == IF init THEN AgentInitialize(S0, io) ELSE S0
  IN IF ~S1.ok THEN [S1 EXCEPT !.a.initThrew = TRUE, !.a.pc = "catch"]
     ELSE LET S2 == [S1 EXCEPT !.a.initializedHere = init]
          IN IF ~S2.a.executor THEN [S2 EXCEPT !.a.pc = "catch"]
             ELSE IF method = "stream"
               THEN [S2 EXCEPT !.a.map = NameToToolMap(S2.a.tools), !.a.pc = "loop"]
               ELSE [S2 EXCEPT !.a.pc = "events"]

\* Variant of ToolsChanged that compares the number of tools only.
ToolsChanged_LengthOnly(currentTools, tools) ==
  Len(currentTools) # Len(tools)

\* The test of lines 379-381.
ToolsChanged(currentTools, tools) ==
  \/ Len(currentTools) # Len(tools)
  \/ \E n \in Names(currentTools) : n \notin Names(tools)

\* The head of one turn of the loop (lines 372-394).
AgentReconcile(S) ==
  IF S.a.stepNum >= S.a.steps THEN [S EXCEPT !.a.pc = "post", !.a.ended = "exhausted"]
  ELSE IF S.a.mode = "manager" /\ ToolsChanged(SMTools(S.W.sm), S.a.tools)
    THEN LET S1 == CreateAgent(TakeManagerTools(S))
         IN [S1 EXCEPT !.a.map = NameToToolMap(S1.a.tools), !.a.rebuilt = TRUE,
                       !.a.pc = "step"]
  ELSE [S EXCEPT !.a.rebuilt = FALSE, !.a.pc = "step"]

\* What the model asks a tool for: the tool's name and its arguments.
AgentIOs == {"ok", "connectFail"}
ActionsFor(n) ==
  IF n = "connect_to_mcp_server"
    THEN {[tool |-> n, server |-> s, kind |-> "valid", io |-> i] :
            s \in CallNames, i \in AgentIOs}
  ELSE IF n = "add_mcp_server_from_config"
    THEN {[tool |-> n, server |-> s, kind |-> k, io |-> i] :
            s \in ServerNames, k \in ConfigKinds, i \in AgentIOs}
  ELSE {[tool |-> n, server |-> "x", kind |-> "valid", io |-> "ok"]}

\* A name no tool has.
UnknownTool == "nope"
AgentActions(a) == UNION {ActionsFor(n) : n \in {t.name : t \in a.map} \cup {UnknownTool}}

\* One tool invocation of _takeNextStep: nameToolMap[action.tool], then the
\* tool's _call.  A server's tool goes to the connector it was built on.
ExecAction(S, act) ==
  IF act.tool \notin {t.name : t \in S.a.map} THEN S
  ELSE LET t == CHOOSE u \in S.a.map : u.name = act.tool
       IN IF t.srv = "meta"
            THEN [S EXCEPT !.W =
                   CASE t.name = "connect_to_mcp_server" ->
                          ConnectMCPServerTool(S.W, act.server, act.io, "ok")
                     [] t.name = "add_mcp_server_from_config" ->
                          AddMCPServerFromConfigTool(S.W, act.server, act.kind, act.io, "ok")
                     [] t.name = "disconnect_from_mcp_server" ->
                          ReleaseMCPServerConnectionTool(S.W)
                     [] t.name = "get_active_mcp_server" -> AcquireActiveMCPServerTool(S.W)
                     [] OTHER -> ListMCPServersTool(S.W)]
          ELSE IF t.srv = "extra" \/ S.a.mode # "manager" THEN S
          ELSE [S EXCEPT !.a.called =
                  [absent |-> @.absent \/ t.name \notin Names(SMTools(S.W.sm)),
                   stale |-> @.stale \/ t \notin SeqToSet(SMTools(S.W.sm))]]

RECURSIVE ExecActions(_, _)
ExecActions(S, acts) ==
  IF acts = <<>> THEN S ELSE ExecActions(ExecAction(S, Head(acts)), Tail(acts))

\* _takeNextStep returned an AgentFinish (lines 406-410).
AgentFinish(S, output) ==
  [S EXCEPT !.a.output = output,
            !.a.result = IF output = "undefined" THEN NoOutput ELSE output,
            !.a.ended = "finish", !.a.pc = "post"]

\* _takeNextStep threw (lines 445-455).
AgentStepThrew(S, kind) ==
  [S EXCEPT !.a.result = IF kind = "parse" THEN "Agent stopped due to a parsing error"
                         ELSE "Agent stopped due to an error",
            !.a.ended = kind, !.a.pc = "post"]

\* _takeNextStep returned steps (lines 412-443); obs: what the last tool gave.
AgentSteps(S, acts, obs) ==
  LET S1 == ExecActions(S, acts)
      last == acts[Len(acts)]
      direct == \E t \in SeqToSet(S.a.plan) : t.name = last.tool /\ ReturnDirect(t)
  IN IF direct
       THEN [S1 EXCEPT !.a.output = obs, !.a.result = obs, !.a.ended = "direct",
                       !.a.pc = "post"]
       ELSE [S1 EXCEPT !.a.stepNum = @ + 1, !.a.pc = "loop"]

\* The finally block (lines 480-523), then the generator is done.
AgentFinally(S, after) ==
  IF S.a.manageConnector /\ S.a.mode = "connector" /\ S.a.initializedHere
    THEN LET S1 == AgentClose(S)
         IN IF S1.a.pc = "awaitReceiver" THEN S1 ELSE [S1 EXCEPT !.a.pc = after]
    ELSE [S EXCEPT !.a.pc = after]

\* Post-loop handling and return (lines 458-470).
AgentPost(S) ==
  AgentFinally([S EXCEPT !.a.result = IF @ = "" THEN MaxStepsResult ELSE @], "returned")

\* The catch block (lines 472-479, 646-653).
AgentCatch(S) ==
  IF S.a.initializedHere /\ S.a.manageConnector
    THEN LET S1 == AgentClose(S)
         IN IF S1.a.pc = "awaitReceiver" THEN S1 ELSE AgentFinally(S1, "threw")
    ELSE AgentFinally(S, "threw")

\* ---- one call of stream() or streamEvents() on a new agent ----

ApplyAgent(S) ==
  /\ ag' = S.a
  /\ reg' = [S.W.reg EXCEPT !.ret = NoCall]
  /\ sm' = [S.W.sm EXCEPT !.ret = NoCall]
  /\ UNCHANGED <<cm, nMgrs, cx, cl, tl>>

Stream(method, maxSteps, manageConnector, io) ==
  /\ ag.pc = "idle"
  /\ ApplyAgent(AgentStart(AgentWorld, method, maxSteps, manageConnector, io))

Reconcile ==
  /\ ag.pc = "loop"
  /\ ApplyAgent(AgentReconcile(AgentWorld))

StepFinish(output) ==
  /\ ag.pc = "step"
  /\ ApplyAgent(AgentFinish(AgentWorld, output))

StepThrew(kind) ==
  /\ ag.pc = "step"
  /\ ApplyAgent(AgentStepThrew(AgentWorld, kind))

\* Connectors a tool call may build.
Builds(act) ==
  IF act.tool \in {"connect_to_mcp_server", "add_mcp_server_from_config"} THEN 1 ELSE 0

StepOne(a1, obs) ==
  /\ ag.pc = "step"
  /\ reg.nConn + Builds(a1) <= MaxConnectors
  /\ ApplyAgent(AgentSteps(AgentWorld, <<a1>>, obs))

\* A step in which the model asks for two tools.
StepTwo(a1, a2, obs) ==
  /\ ag.pc = "step"
  /\ reg.nConn + Builds(a1) + Builds(a2) <= MaxConnectors
  /\ ApplyAgent(AgentSteps(AgentWorld, <<a1, a2>>, obs))

EventsDone(ok) ==
  /\ ag.pc = "events"
  /\ ApplyAgent(IF ok THEN AgentFinally(AgentWorld, "returned")
                ELSE [AgentWorld EXCEPT !.a.pc = "catch"])

Post ==
  /\ ag.pc = "post"
  /\ ApplyAgent(AgentPost(AgentWorld))

Catch ==
  /\ ag.pc = "catch"
  /\ ApplyAgent(AgentCatch(AgentWorld))

\* The peer closes the socket: the receive loop of the WebSocketConnector
\* ends and disconnect() goes on.
ReceiverEnds ==
  /\ ag.pc = "awaitReceiver"
  /\ ApplyAgent([AgentWorld EXCEPT !.a.connector.connected = FALSE,
                                   !.a.connector.toolsCache = FALSE,
                                   !.a.initialized = FALSE,
                                   !.a.pc = IF ag.ended = "none" THEN "threw" ELSE "returned"])

ConnectorOptions ==
  {[kind |-> k, connected |-> c, toolsCache |-> c] : k \in {"http", "ws"}, c \in BOOLEAN}
NoConnector == [kind |-> "none", connected |-> FALSE, toolsCache |-> FALSE]

InitAgent ==
  /\ nMgrs = 0
  /\ cm = [m \in Mgrs |-> NewCM]
  /\ cx = NewConnector("none", FALSE)
  /\ cl = [c \in Mgrs |-> NewClient]
  /\ tl = NoApp
  /\ \E mode \in {"manager", "client", "connector"} :
     \E S \in SUBSET ServerNames : \E remoteY \in RemoteOptions :
     \E ov \in OverrideOptions : \E add \in AdditionalOptions : \E auto \in BOOLEAN :
     \E conn \in ConnectorOptions \cup {NoConnector} :
       /\ (mode = "connector") = (conn # NoConnector)
       /\ mode = "connector" => S = {} /\ remoteY = <<>>
       /\ mode # "manager" => ov = Undefined
       /\ mode = "manager" => ~auto /\ "y" \notin S
       /\ reg = NewClientRegistry([n \in ServerNames |->
                                     IF n \in S THEN "valid" ELSE "undefined"], remoteY)
       /\ sm = NewServerManager(ov)
       /\ ag = NewAgent(mode, add, auto, conn)

\* The steps the call takes by itself, given that the model, the tools and
\* the consumer of the generator answer.
AgentRuns ==
  \/ Reconcile
  \/ \E output \in Outputs : StepFinish(output)
  \/ \E kind \in {"parse", "other"} : StepThrew(kind)
  \/ \E a1 \in AgentActions(ag) : \E obs \in {"", "text"} : StepOne(a1, obs)
  \/ \E a1 \in AgentActions(ag) : \E a2 \in AgentActions(ag) : \E obs \in {"", "text"} :
       StepTwo(a1, a2, obs)
  \/ \E ok \in BOOLEAN : EventsDone(ok)
  \/ Post
  \/ Catch

NextAgent ==
  \/ \E method \in {"stream", "streamEvents"} : \E maxSteps \in StepArgs :
     \E manageConnector \in BOOLEAN : \E io \in [ServerNames -> AgentIOs] :
       Stream(method, maxSteps, manageConnector, io)
  \/ AgentRuns
  \/ ReceiverEnds

SpecAgent == InitAgent /\ [][NextAgent]_vars

\* The peer of a socket owes nothing; the agent's own steps are taken.
FairAgent == SpecAgent /\ WF_vars(AgentRuns)

\* ------------------------------------------------------------------------
\* createConnectorFromConfig (src/src/config.ts)
\* ------------------------------------------------------------------------

\* One entry of mcpServers, by the keys it carries.  wsUrl is the key the
\* configuration shape documents for a WebSocket server; ws_url is the key
\* the function looks for.
ServerConfigs ==
  [command : BOOLEAN, args : BOOLEAN, url : BOOLEAN, ws_url : BOOLEAN, wsUrl : BOOLEAN,
   transport : {"undefined", "http", "sse"}, preferSse : BOOLEAN]

NoConnectorBuilt == [kind |-> "none", preferSse |-> FALSE]

\* createConnectorFromConfig(serverConfig) (config.ts lines 12-43): the
\* connector built, or kind "threw".
CreateConnectorFromConfig(serverConfig) ==
  IF serverConfig.command /\ serverConfig.args
    THEN [kind |-> "stdio", preferSse |-> FALSE]
  ELSE IF serverConfig.url
    THEN LET transport == IF serverConfig.transport = "undefined" THEN "http"
                          ELSE serverConfig.transport
         IN [kind |-> "http", preferSse |-> serverConfig.preferSse \/ transport = "sse"]
  ELSE IF serverConfig.ws_url
    THEN [kind |-> "websocket", preferSse |-> FALSE]
  ELSE [kind |-> "threw", preferSse |-> FALSE]

\* The function applied to one configuration entry.
BuildConnector ==
  /\ reg.connector = NoConnectorBuilt
  /\ reg' = [reg EXCEPT !.connector = CreateConnectorFromConfig(reg.serverConfig)]
  /\ UNCHANGED <<cm, nMgrs, cx, cl, sm, ag, tl>>

InitConfig ==
  /\ nMgrs = 0
  /\ cm = [m \in Mgrs |-> NewCM]
  /\ cx = NewConnector("none", FALSE)
  /\ cl = [c \in Mgrs |-> NewClient]
  /\ \E c \in ServerConfigs : reg = [serverConfig |-> c, connector |-> NoConnectorBuilt]
  /\ sm = NoApp /\ ag = NoApp /\ tl = NoApp

NextConfig == BuildConnector

SpecConfig == InitConfig /\ [][NextConfig]_vars

\* ------------------------------------------------------------------------
\* MCPAgent.streamEvents (src/unnamed/part_003 lines 556-696): the loop over
\* the event stream of the agent executor
\* ------------------------------------------------------------------------

MaxEvents == 3

\* What data.output of an on_chain_end event can be: absent, a string, an
\* object whose own output is a string, and the same two with an empty
\* string.
EventOutputs == {"undefined", "string", "wrapped", "emptyString", "wrappedEmpty"}

StreamEvent(t, event, output) == [t |-> t, event |-> event, output |-> output]

\* The values the executor's stream can hand over: null, a value that is
\* not an object, an object with nothing but an event name, a model token,
\* and the end of a chain.
ExecutorEvents ==
  { StreamEvent("null", "none", "undefined"),
    StreamEvent("string", "none", "undefined"),
    StreamEvent("object", "malformed", "undefined"),
    StreamEvent("object", "on_chat_model_stream", "undefined") }
  \cup { StreamEvent("object", "on_chain_end", o) : o \in EventOutputs }

ExecutorStreams == UNION { [1..n -> ExecutorEvents] : n \in 0..MaxEvents }

\* `!event || typeof event !== 'object'` (lines 620-622)
SkippedEvent(e) == e.t # "object"

\* The condition under which the loop adds an AIMessage (lines 632-640):
\* data.output is truthy and is a string or carries a non-empty string.
AddsAIMessage(e) == e.event = "on_chain_end" /\ e.output \in {"string", "wrapped"}

\* addToHistory(message) (lines 250-253)
AddToHistory(a, message) ==
  IF a.memoryEnabled THEN [a EXCEPT !.conversationHistory = Append(@, message)] ELSE a

NewStreamingAgent(memoryEnabled, stream, fails) ==
  [ memoryEnabled |-> memoryEnabled,
    conversationHistory |-> <<>>,
    executor |-> stream,          \* what the executor's stream has yet to emit
    fails |-> fails,              \* whether that stream ends by raising
    emitted |-> <<>>,             \* what it has emitted
    yielded |-> <<>>,             \* what streamEvents has yielded
    eventCount |-> 0,
    success |-> FALSE,
    pc |-> "idle" ]

\* The call up to the loop (lines 568-613), the agent being initialized:
\* the user message is recorded.
StreamEventsCall ==
  /\ ag.pc = "idle"
  /\ ag' = [AddToHistory(ag, "human") EXCEPT !.pc = "loop"]
  /\ UNCHANGED <<cm, nMgrs, cx, cl, reg, sm, tl>>

\* One turn of `for await (const event of eventStream)` up to `continue`
\* or `yield event` (lines 616-629).
PullEvent ==
  /\ ag.pc = "loop" /\ ag.executor # <<>>
  /\ LET event == Head(ag.executor)
     IN ag' = [ag EXCEPT !.executor = Tail(@),
                         !.emitted = Append(@, event),
                         !.eventCount = @ + 1,
                         !.yielded = IF SkippedEvent(event) THEN @ ELSE Append(@, event),
                         !.pc = IF SkippedEvent(event) THEN "loop" ELSE "yielded"]
  /\ UNCHANGED <<cm, nMgrs, cx, cl, reg, sm, tl>>

\* The consumer asks for the next event: the loop body goes on after the
\* yield (lines 631-640).
ResumeAfterYield ==
  /\ ag.pc = "yielded"
  /\ LET event == ag.yielded[Len(ag.yielded)]
     IN ag' = [(IF AddsAIMessage(event) THEN AddToHistory(ag, "ai") ELSE ag) EXCEPT !.pc = "loop"]
  /\ UNCHANGED <<cm, nMgrs, cx, cl, reg, sm, tl>>

\* The consumer leaves its loop at a yielded event: the generator returns
\* there and only its finally block runs.
ConsumerReturns ==
  /\ ag.pc = "yielded"
  /\ ag' = [ag EXCEPT !.pc = "returned"]
  /\ UNCHANGED <<cm, nMgrs, cx, cl, reg, sm, tl>>

\* The executor's stream is exhausted (lines 643-644).
StreamEnds ==
  /\ ag.pc = "loop" /\ ag.executor = <<>> /\ ~ag.fails
  /\ ag' = [ag EXCEPT !.success = TRUE, !.pc = "done"]
  /\ UNCHANGED <<cm, nMgrs, cx, cl, reg, sm, tl>>

\* The executor's stream raises: the catch block rethrows (lines 646-653).
StreamThrows ==
  /\ ag.pc = "loop" /\ ag.executor = <<>> /\ ag.fails
  /\ ag' = [ag EXCEPT !.pc = "threw"]
  /\ UNCHANGED <<cm, nMgrs, cx, cl, reg, sm, tl>>

InitEvents ==
  /\ nMgrs = 0
  /\ cm = [m \in Mgrs |-> NewCM]
  /\ cx = NewConnector("none", FALSE)
  /\ cl = [c \in Mgrs |-> NewClient]
  /\ reg = NoApp /\ sm = NoApp /\ tl = NoApp
  /\ \E memoryEnabled \in BOOLEAN : \E stream \in ExecutorStreams : \E fails \in BOOLEAN :
       ag = NewStreamingAgent(memoryEnabled, stream, fails)

NextEvents ==
  \/ StreamEventsCall
  \/ PullEvent
  \/ ResumeAfterYield
  \/ ConsumerReturns
  \/ StreamEnds
  \/ StreamThrows

SpecEvents == InitEvents /\ [][NextEvents]_vars

\* ------------------------------------------------------------------------
\* Concurrent connect() calls on one connector built on BaseConnector
\* (src/unnamed/part_010 lines 47-93, src/src/connectors/http.ts lines
\* 227-237 and 341-378), as two MCPSession.initialize() calls make them
\* (src/unnamed/part_002 lines 20-25)
\* ------------------------------------------------------------------------

MaxCalls == 2       \* connect() calls made on the connector

ConnectCalls == 1..MaxCalls
\* Call 0 is the disconnect() that follows.
RaceCalls == 0..MaxCalls

\* A call: where it is suspended, and the client and the manager its
\* cleanupResources read from the fields.
NewCall == [pc |-> "none", closing |-> 0, stopping |-> 0]

\* The connection manager and the protocol client that connect() call c
\* creates are identified by c.
NewRaceConnector ==
  [ connected |-> FALSE, client |-> 0, connectionManager |-> 0,
    call |-> [c \in RaceCalls |-> NewCall],
    mgr |-> [c \in ConnectCalls |-> "none"],
    cli |-> [c \in ConnectCalls |-> "none"],
    raced |-> FALSE ]            \* a connect() was entered with another one in progress

InProgress(x, c) == x.call[c].pc \notin {"none", "returned", "noop", "threw"}

\* cleanupResources from `this.toolsCache = null` on, back in the caller
\* (http.ts lines 374-377; part_010 lines 88-92; http.ts lines 234-236).
RaceCleanupEnd(x, c) ==
  IF c = 0 THEN [x EXCEPT !.connected = FALSE, !.call[c].pc = "returned"]
  ELSE [x EXCEPT !.call[c].pc = "threw"]

\* `if (this.connectionManager) await this.connectionManager.stop()`
\* (http.ts lines 361-372): stop() aborts the manager it finds in the field.
RaceCleanupMgr(x, c) ==
  LET m == x.connectionManager
  IN IF m # 0
       THEN [x EXCEPT !.call[c].pc = "cleanupStop", !.call[c].stopping = m,
                      !.mgr[m] = IF @ = "starting" THEN "aborted" ELSE @]
       ELSE RaceCleanupEnd(x, c)

\* cleanupResources up to its first suspension (http.ts lines 341-348).
RaceCleanup(x, c) ==
  IF x.client # 0
    THEN [x EXCEPT !.call[c].pc = "cleanupClose", !.call[c].closing = x.client]
    ELSE RaceCleanupMgr(x, c)

\* connect() up to `await this.connectionManager.start()` (part_010 lines 47-79).
RaceConnect(x, c) ==
  IF x.connected THEN [x EXCEPT !.call[c].pc = "noop"]
  ELSE [x EXCEPT !.connectionManager = c, !.mgr[c] = "starting",
                 !.call[c].pc = "awaitStart",
                 !.raced = @ \/ (\E d \in ConnectCalls : InProgress(x, d))]

\* start() returned the transport: the client is created and its handshake
\* begins (part_010 lines 81-83).  A manager a stop() had aborted closes the
\* transport it has just established.
RaceAfterStart(x, c) ==
  [x EXCEPT !.mgr[c] = IF @ = "aborted" THEN "stopped" ELSE "started",
            !.client = c, !.cli[c] = "connecting",
            !.call[c].pc = "awaitHandshake"]

\* disconnect() (http.ts lines 227-237)
RaceDisconnect(x) ==
  IF ~x.connected THEN [x EXCEPT !.call[0].pc = "noop"]
  ELSE RaceCleanup(x, 0)

ApplyRace(x) == cx' = x /\ UNCHANGED <<cm, nMgrs, cl, reg, sm, ag, tl>>

\* connect() is called; the calls are numbered in the order they are made.
EnterConnect(c) ==
  /\ cx.call[c].pc = "none" /\ cx.call[0].pc = "none"
  /\ \A d \in ConnectCalls : d < c => cx.call[d].pc # "none"
  /\ ApplyRace(RaceConnect(cx, c))

StartResolves(c) ==
  /\ cx.call[c].pc = "awaitStart"
  /\ ApplyRace(RaceAfterStart(cx, c))

\* start() rejects: the catch block runs cleanupResources (part_010 lines 88-92).
StartRejects(c) ==
  /\ cx.call[c].pc = "awaitStart"
  /\ ApplyRace(RaceCleanup([cx EXCEPT !.mgr[c] = "failed"], c))

\* `await this.client.connect(transport)` resolves (part_010 lines 83-86).
HandshakeResolves(c) ==
  /\ cx.call[c].pc = "awaitHandshake" /\ cx.cli[c] = "connecting" /\ cx.mgr[c] = "started"
  /\ ApplyRace([cx EXCEPT !.cli[c] = "connected", !.connected = TRUE,
                          !.call[c].pc = "returned"])

HandshakeRejects(c) ==
  /\ cx.call[c].pc = "awaitHandshake"
  /\ ApplyRace(RaceCleanup([cx EXCEPT !.cli[c] = IF @ = "connecting" THEN "failed" ELSE @], c))

\* `await this.client.close()` settled; finally: this.client = null
\* (http.ts lines 345-358).
ClientCloseSettles(c) ==
  /\ cx.call[c].pc = "cleanupClose"
  /\ ApplyRace(RaceCleanupMgr([cx EXCEPT !.cli[cx.call[c].closing] = "closed",
                                         !.client = 0], c))

\* `await this.connectionManager.stop()` returned: the task of that manager
\* is over; finally: this.connectionManager = null (http.ts lines 362-372).
ManagerStopReturns(c) ==
  /\ cx.call[c].pc = "cleanupStop"
  /\ cx.mgr[cx.call[c].stopping] \in {"started", "stopped", "failed"}
  /\ ApplyRace(RaceCleanupEnd([cx EXCEPT !.mgr[cx.call[c].stopping] =
                                            IF @ = "started" THEN "stopped" ELSE @,
                                         !.connectionManager = 0], c))

\* disconnect() is called once every connect() has settled.
DisconnectAfter ==
  /\ cx.call[0].pc = "none"
  /\ \A c \in ConnectCalls : cx.call[c].pc # "none" /\ ~InProgress(cx, c)
  /\ ApplyRace(RaceDisconnect(cx))

InitRace ==
  /\ nMgrs = 0
  /\ cm = [m \in Mgrs |-> NewCM]
  /\ cl = [c \in Mgrs |-> NewClient]
  /\ reg = NoApp /\ sm = NoApp /\ ag = NoApp /\ tl = NoApp
  /\ cx = NewRaceConnector

NextRace ==
  \/ \E c \in ConnectCalls : EnterConnect(c)
  \/ \E c \in ConnectCalls : StartResolves(c)
  \/ \E c \in ConnectCalls : StartRejects(c)
  \/ \E c \in ConnectCalls : HandshakeResolves(c)
  \/ \E c \in ConnectCalls : HandshakeRejects(c)
  \/ \E c \in RaceCalls : ClientCloseSettles(c)
  \/ \E c \in RaceCalls : ManagerStopReturns(c)
  \/ DisconnectAfter

SpecRace == InitRace /\ [][NextRace]_vars

\* ------------------------------------------------------------------------
\* Properties of the ConnectionManager
\* ------------------------------------------------------------------------

SumOver(f, S) == LET RECURSIVE Sum(_)
                     Sum(T) == IF T = {} THEN 0
                               ELSE LET x == CHOOSE y \in T : TRUE IN f[x] + Sum(T \ {x})
                 IN Sum(S)

\* Connection attempts in flight or connections held open by a task.
LiveAttempts(r) == {t \in Tasks : r.tpc[t] \in {"establishing", "waiting"}}

\* C1: stop() called on a freshly constructed manager (no start() before it)
\* eventually resolves.  A stop() that found _task null awaits the done
\* promise of generation 0.
C1_StopBeforeStartResolves ==
  \A s \in StopIds :
    (cm[1].stopCall[s] = "awaitDone" /\ cm[1].stopTask[s] = 0 /\ cm[1].stopGen[s] = 0)
      ~> (cm[1].stopCall[s] = "returned")

\* C2: with one start() and any number of stop() calls, closeConnection is
\* invoked at most once, and not at all unless establishConnection succeeded.
C2_CloseAtMostOnce ==
  \A m \in Mgrs :
    cm[m].gen <= 1 =>
      /\ SumOver(cm[m].closeCalls, Tasks) <= 1
      /\ cm[m].established = {} => SumOver(cm[m].closeCalls, Tasks) = 0

C2_Witness ==
  /\ cm[1].gen = 1 /\ cm[1].closeCalls[1] = 1 /\ cm[1].tpc[1] = "finished"
  /\ \A s \in 1..2 : cm[1].stopCall[s] = "returned" /\ cm[1].stopTask[s] = 1

\* C3: start() on a manager that is Connecting or Ready does not establish
\* again: at most one attempt or live connection per instance.
C3_NoDoubleEstablish ==
  \A m \in Mgrs : Cardinality(LiveAttempts(cm[m])) <= 1

\* C4: when establishConnection of the task a start() call launched fails,
\* that call rejects with that very error and returns no handle; when
\* closeConnection fails, every stop() that awaited the task has returned
\* once the task is over.
C4_FailureSemantics ==
  \A m \in Mgrs :
    /\ \A k \in Tasks :
         k \in cm[m].estFailed =>
           /\ cm[m].startCall[k] = "threw"
           /\ cm[m].startErr[k] = EstablishError(k)
           /\ cm[m].startRet[k] = 0
    /\ \A s \in StopIds : \A t \in Tasks :
         (cm[m].stopTask[s] = t /\ cm[m].stopCall[s] # "none" /\ cm[m].tpc[t] = "finished"
            /\ cm[m].tClosing[t] \in cm[m].closeFailed) =>
           cm[m].stopCall[s] = "returned"

\* The same statement for managers on which no start() was called while an
\* earlier task was still live.
FailureSemanticsWithoutOverlap ==
  \A m \in Mgrs :
    ~cm[m].overlapped =>
      /\ \A k \in Tasks :
           k \in cm[m].estFailed =>
             /\ cm[m].startCall[k] = "threw"
             /\ cm[m].startErr[k] = EstablishError(k)
             /\ cm[m].startRet[k] = 0
      /\ \A s \in StopIds : \A t \in Tasks :
           (cm[m].stopTask[s] = t /\ cm[m].stopCall[s] # "none" /\ cm[m].tpc[t] = "finished"
              /\ cm[m].tClosing[t] \in cm[m].closeFailed) =>
             cm[m].stopCall[s] = "returned"

\* ------------------------------------------------------------------------
\* Properties of the connectors
\* ------------------------------------------------------------------------

ConnectThrew == cx.op = "none" /\ cx.ret.name = "connect" /\ cx.ret.outcome = "threw"

\* Manager m has been stopped: a stop() call on it returned, its task is over
\* and it holds no connection.
Stopped(m) ==
  /\ \E s \in StopIds : cm[m].stopCall[s] = "returned"
  /\ cm[m].tpc[1] = "finished" /\ cm[m].connection = 0

\* The attempt over manager m failed: establishment or handshake.
AttemptFailed(m) == 1 \in cm[m].estFailed \/ cl[m].failed

\* C5: HttpConnector without preferSse: connect() raises only after the SSE
\* attempt was made and failed too, whatever the streaming-HTTP error was;
\* once the SSE attempt has succeeded, the connector is connected and reports
\* transport "sse"; and whenever an HttpConnector is connected,
\* publicIdentifier.transport is the kind of the manager whose attempt
\* succeeded.
C5_TransportReported ==
  /\ (cx.kind = "http" /\ cx.connected) =>
       /\ cx.connectionManager # 0
       /\ PublicTransport(cx) = cx.mgrKind[cx.connectionManager]
  /\ \A m \in Mgrs :
       (cx.kind = "http" /\ ~cx.preferSse /\ cx.mgrKind[m] = "sse" /\ cl[m].state = "connected") =>
         /\ cx.connected /\ PublicTransport(cx) = "sse"
         /\ (cx.op = "none" /\ cx.ret.name = "connect") => cx.ret.outcome \in {"ok", "noop"}
  /\ (ConnectThrew /\ cx.kind = "http" /\ ~cx.preferSse) =>
       \E m \in cx.ret.started : cx.mgrKind[m] = "sse" /\ AttemptFailed(m)

C5_Witness ==
  /\ cx.kind = "http" /\ ~cx.preferSse /\ cx.connected /\ cx.op = "none"
  /\ cx.ret.name = "connect" /\ cx.ret.outcome = "ok"
  /\ Cardinality(cx.ret.started) = 2
  /\ \E m \in cx.ret.started : cx.mgrKind[m] = "streamable-http" /\ AttemptFailed(m)
  /\ PublicTransport(cx) = "sse"

\* C6: when both the streaming-HTTP and the SSE attempt fail, the error
\* connect() raises names both failure reasons.
C6_CompositeNamesBoth ==
  (ConnectThrew /\ cx.kind = "http" /\ ~cx.preferSse) =>
    /\ cx.ret.err.cites.streamable # "none"
    /\ cx.ret.err.cites.sse # "none"

\* C7: when connect() fails, the connector is not connected, holds neither
\* client nor connection manager, and every manager the call started is stopped.
C7_CleanAfterFailedConnect ==
  ConnectThrew =>
    /\ ~cx.connected /\ cx.client = 0 /\ cx.connectionManager = 0
    /\ cx.ret.started # {}
    /\ \A m \in cx.ret.started : Stopped(m)

C7_Witness ==
  /\ ConnectThrew /\ cx.kind = "http" /\ Cardinality(cx.ret.started) = 2
  /\ \E m \in cx.ret.started : cm[m].closeCalls[1] = 1 /\ cl[m].closeCalls = 1

\* C8: a disconnect() that directly follows a completed disconnect() of a
\* connected connector returns at once: no client is closed, no manager is
\* stopped, nothing is raised.
C8_SecondDisconnectNoop ==
  [][(Disconnect /\ cx.ret.name = "disconnect" /\ cx.ret.outcome = "ok") =>
       /\ cx'.op = "none" /\ cx'.ret.name = "disconnect" /\ cx'.ret.outcome = "noop"
       /\ cl' = cl /\ cm' = cm
       /\ cx'.connected = cx.connected /\ cx'.client = cx.client
       /\ cx'.connectionManager = cx.connectionManager]_vars

C8_Witness ==
  /\ cx.ret.name = "disconnect" /\ cx.ret.outcome = "noop"
  /\ cx.prev.name = "disconnect" /\ cx.prev.outcome = "ok"
  /\ \E m \in Mgrs : cm[m].closeCalls[1] = 1

\* C9: when the socket closes while requests are pending, each of them is
\* rejected with the "WebSocket closed" error and the pending map is empty.
C9_CloseRejectsAllPending ==
  [][\A m \in Mgrs :
       ((PeerClose(m) \/ MgrCloseOk(m)) /\ Listening(m)) =>
         /\ cx'.pending = {}
         /\ \A i \in cx.pending :
              cx'.req[i].state = "rejected" /\ cx'.req[i].by = "WebSocket closed"]_vars

C9_Witness ==
  /\ \A i \in 1..2 : cx.req[i].state = "rejected" /\ cx.req[i].by = "WebSocket closed"
  /\ cx.pending = {}

\* C10: a response frame (one carrying a result or an error) with id X settles
\* the pending request X and no other, whatever the arrival order; a frame
\* whose id is not pending changes nothing; no request is settled by more
\* than one response frame.
C10_ResponseCorrelation ==
  [][\A m \in Mgrs : \A f \in Frames :
       (OnMessage(m, f) /\ f.kind \in {"result", "error"}) =>
         /\ \A j \in ReqIds : j # f.id => cx'.req[j] = cx.req[j] /\ (j \in cx'.pending <=> j \in cx.pending)
         /\ f.id \in cx.pending =>
              /\ f.id \notin cx'.pending
              /\ cx.req[f.id].state = "pending"
              /\ cx'.req[f.id].state = (IF f.kind = "result" THEN "resolved" ELSE "rejected")
              /\ cx'.req[f.id].by = "response"
         /\ f.id \notin cx.pending => cx' = cx]_vars

C10_Witness ==
  /\ cx.req[2].state = "resolved" /\ cx.req[2].by = "response"
  /\ cx.req[1].state = "pending" /\ 1 \in cx.pending

\* ------------------------------------------------------------------------
\* Properties of the ServerManager and of the MCPClient
\* ------------------------------------------------------------------------

C12_ConnectExposesServerTools ==
  (sm.ret.op = "connect_to_mcp_server" /\ sm.ret.status = "connected") =>
    SMTools(sm) = SMTools([sm EXCEPT !.activeServer = "null"])
                    \o MapSeq(reg.remote[sm.ret.arg], sm.ret.arg)

\* C13: whenever activeServer is set, it is a key of serverTools.
C13_ActiveServerHasTools ==
  sm.activeServer # "null" => sm.serverTools[sm.activeServer].def

\* C20: createSession(name) for a name that is not a configured server
\* raises and leaves the registry as it was: no connector built, no session
\* registered, activeSessions and the configuration unchanged.
C20_UnknownServerRejected ==
  [][\A name \in CallNames : \A auto \in BOOLEAN : \A io \in IOs :
       (CreateSession(name, auto, io) /\ name \notin GetServerNames(reg)) =>
         /\ reg'.ret.op = "createSession" /\ reg'.ret.arg = name
         /\ reg'.ret.status \in {"threw: not found in config",
                                 "threw: cannot determine connector type"}
         /\ reg'.nConn = reg.nConn /\ reg'.conn = reg.conn
         /\ reg'.sessions = reg.sessions /\ reg'.activeSessions = reg.activeSessions
         /\ reg'.config = reg.config]_vars

C20_Witness ==
  /\ reg.ret.op = "createSession" /\ reg.ret.status = "threw: not found in config"
  /\ reg.ret.arg \notin GetServerNames(reg)
  /\ Len(reg.activeSessions) = 1 /\ reg.nConn = 1


\* ------------------------------------------------------------------------
\* Properties of the tools the adapter builds
\* ------------------------------------------------------------------------

\* s occurs in q as a run of consecutive pieces.
Contains(q, s) ==
  \E i \in 0..(Len(q) - Len(s)) : \A j \in 1..Len(s) : q[i + j] = s[j]

\* The failures of one call: callTool rejected, or a result flagged
\* isError, without content, or with an item of a type the adapter does
\* not know.
ToolCallFailed(out) ==
  \/ out.rejected
  \/ out.result.isError
  \/ ~out.result.content.def
  \/ Len(out.result.content.list) = 0
  \/ \E i \in 1..Len(out.result.content.list) :
       out.result.content.list[i].type \in {"audio", "resource.none"}

\* The texts of the original error: the message of what callTool rejected
\* with, or what the server wrote in the content of a result it flagged.
OriginalErrorTexts(out) ==
  IF out.rejected THEN {out.err.message}
  ELSE IF out.result.isError
  THEN {<<out.result.content.list[i].text>> : i \in 1..Len(out.result.content.list)}
  ELSE {}

\* C18: a tool built by the adapter never throws into the agent loop: when
\* callTool raises, or the result is flagged isError, has no content or has
\* an unexpected content type, the tool returns an error string, and the
\* string contains the original error text.
C18_ToolReturnsErrorText ==
  (tl.calls = 1 /\ ToolCallFailed(tl.out)) =>
     /\ ~tl.threw
     /\ Contains(tl.value, <<"Error executing MCP tool: ">>)
     /\ \A s \in OriginalErrorTexts(tl.out) : Contains(tl.value, s)

\* The part of C18 the code keeps: a failure inside parseMcpToolResult, or an
\* Error or a string callTool rejected with, comes back as a string.
ToolErrorsBecomeStrings ==
  (tl.calls = 1 /\ ToolCallFailed(tl.out)
     /\ (tl.out.rejected => tl.out.err.t # "null")) =>
     /\ ~tl.threw
     /\ Contains(tl.value, <<"Error executing MCP tool: ">>)

\* The three ways C18 fails, each reached.
C18_ThrowsOnNull == ~(tl.calls = 1 /\ tl.out.rejected /\ tl.threw)
C18_ObjectTextLost ==
  ~(tl.calls = 1 /\ tl.out.rejected /\ tl.out.err.t = "object"
      /\ ~Contains(tl.value, tl.out.err.message))
C18_FlaggedTextLost ==
  ~(tl.calls = 1 /\ tl.out.result.isError /\ ~tl.threw
      /\ \E s \in OriginalErrorTexts(tl.out) : ~Contains(tl.value, s))


\* ------------------------------------------------------------------------
\* Properties of the agent loop
\* ------------------------------------------------------------------------

\* The stream() call is under way.
Running == ag.pc \notin {"idle", "returned", "threw"}
Done == ag.pc \in {"returned", "threw"}

\* C14: in server-manager mode, when a step runs, the names of the tools the
\* executor was built from, of the name-to-tool map and of the system message
\* are the names ServerManager.tools exposes at that moment plus the names of
\* the agent's additional tools: a difference found before the step has
\* been rebuilt away before the step runs.
C14_PlanMatchesExposedTools ==
  (ag.mode = "manager" /\ ag.pc = "step") =>
     LET expected == Names(SMTools(sm)) \cup Names(ag.additionalTools)
     IN /\ Names(ag.plan) = expected
        /\ {t.name : t \in ag.map} = expected
        /\ ag.sysmsg = expected
        /\ ag.plan = ag.tools

\* A step about to run on a plan rebuilt after the active server went from
\* x (tools a, b) to y (tools a, c): a name removed and a name added.
C14_Witness ==
  /\ ag.mode = "manager" /\ ag.pc = "step" /\ ag.rebuilt /\ ag.stepNum >= 2
  /\ sm.activeServer = "y" /\ sm.serverTools["x"].def
  /\ Tool("c", "y") \in SeqToSet(ag.plan)
  /\ Tool("b", "x") \notin SeqToSet(ag.plan)

\* No tool of a server was called while its name was absent from what
\* ServerManager.tools exposed at the moment of the call.
NoCallAgainstAbsentName == ag.mode = "manager" => ~ag.called.absent

\* A step runs with the tools of the server that is active now.
StepUsesExposedTools ==
  (ag.mode = "manager" /\ ag.pc = "step") =>
     \A t \in ag.map : t.srv \in ServerNames => t \in SeqToSet(SMTools(sm))

\* C15: when the active server changed between two steps, the next step
\* uses the new tool set, and no tool call is executed against a name absent
\* from the set ServerManager exposes at the moment of the call.
C15_StepsUseCurrentToolSet == NoCallAgainstAbsentName /\ StepUsesExposedTools

\* The loop never runs more turns than the budget of the call.
StepsWithinBudget == ag.stepNum <= ag.steps /\ ag.steps \in 0..MaxSteps

\* With a client (server-manager or client mode) every call comes to its end.
TerminatesWithClient == (ag.mode # "connector" /\ Running) ~> Done

\* C16: stream() always terminates: after at most maxSteps steps it returns
\* a result string (or raises).
C16_StreamTerminates == (ag.method = "stream" /\ Running) ~> Done

\* C17: stream() returns the "maximum number of steps" result only if all
\* the steps of the budget ran without a completion, a direct tool return or
\* an error; when the reasoning step signals completion, the result is that
\* completion's output.
C17_MaxStepsOnlyWhenExhausted ==
  (ag.method = "stream" /\ ag.pc = "returned") =>
     /\ (ag.result = MaxStepsResult => ag.ended = "exhausted" /\ ag.stepNum = ag.steps)
     /\ (ag.ended = "finish" /\ ag.output # "undefined" => ag.result = ag.output)

\* What holds of the result: a run that used up its budget returns the
\* "maximum number of steps" result, and a completion with a non-empty
\* output returns that output.
MaxStepsWhenExhausted ==
  (ag.method = "stream" /\ ag.pc = "returned") =>
     /\ (ag.ended = "exhausted" => ag.result = MaxStepsResult)
     /\ (ag.ended = "finish" /\ ag.output = "text" => ag.result = "text")

\* C19: when initialize() fails in a call made with manageConnector on an
\* agent not yet initialized, the error reaches the caller and close() has
\* run before it does.
C19_InitFailureCloses ==
  (ag.pc = "threw" /\ ag.initThrew /\ ag.manageConnector) => ag.closeCalls >= 1

\* The failed initialize() left something open: a session of the client, or
\* the direct connector.
InitFailureLeavesNothingOpen ==
  (ag.pc = "threw" /\ ag.initThrew /\ ag.manageConnector) =>
     /\ reg.activeSessions = <<>>
     /\ ~ag.connector.connected

\* ------------------------------------------------------------------------
\* Properties of createConnectorFromConfig
\* ------------------------------------------------------------------------

\* C21: the connector kind follows the keys present, with the precedence
\* command+args, then url, then wsUrl; a config carrying only wsUrl yields a
\* WebSocket connector, and a config matching none raises.
C21_KindByPrecedence ==
  reg.connector # NoConnectorBuilt =>
     LET c == reg.serverConfig
     IN reg.connector.kind =
          (IF c.command /\ c.args THEN "stdio"
           ELSE IF c.url THEN "http"
           ELSE IF c.wsUrl THEN "websocket"
           ELSE "threw")

\* What the code does: the same precedence with the key ws_url in the place
\* of wsUrl.
KindByPrecedenceSnakeKey ==
  reg.connector # NoConnectorBuilt =>
     LET c == reg.serverConfig
     IN reg.connector.kind =
          (IF c.command /\ c.args THEN "stdio"
           ELSE IF c.url THEN "http"
           ELSE IF c.ws_url THEN "websocket"
           ELSE "threw")

\* A config carrying only wsUrl is refused.
WsUrlOnlyBuilds ==
  ~(reg.connector.kind = "threw" /\ reg.serverConfig.wsUrl /\ ~reg.serverConfig.ws_url
      /\ ~reg.serverConfig.url /\ ~reg.serverConfig.command /\ ~reg.serverConfig.args)

\* ------------------------------------------------------------------------
\* Properties of the sessions of the MCPClient
\* ------------------------------------------------------------------------

\* C22: createAllSessions() attempts a session for every configured server:
\* a server whose own session can be created gets one, whatever happens to
\* the sessions of the other servers.
C22_AllServersAttempted ==
  [][\A io \in [ServerNames -> IOs] :
       CreateAll(io) =>
         \A n \in GetServerNames(reg) :
           (reg.config[n] = "valid" /\ io[n] = "ok") => reg'.sessions[n] > reg.nConn]_vars

\* What the code does: the servers are taken in order, up to and including
\* the first whose session cannot be created.
SessionsUpToFirstFailure ==
  [][\A io \in [ServerNames -> IOs] :
       CreateAll(io) =>
         LET keys == ConfigKeys(reg)
             good(n) == reg.config[n] = "valid" /\ io[n] = "ok"
         IN \A i \in 1..Len(keys) :
              (reg'.sessions[keys[i]] > reg.nConn) <=> (\A j \in 1..i : good(keys[j]))]_vars

\* C23: closeSession and closeAllSessions never raise, also when a
\* session's disconnect() raises; closeSession(n) leaves no session of n,
\* and after closeAllSessions disconnect has been attempted on every session
\* that was registered, and the session map and activeSessions are empty.
C23_CloseNeverRaises ==
  [][/\ \A n \in ServerNames : \A ok \in BOOLEAN :
          CloseSession(n, ok) =>
            /\ reg'.ret.status \in {"ok", "noop"}
            /\ reg'.sessions[n] = 0
            /\ n \notin SeqToSet(reg'.activeSessions)
            /\ reg.sessions[n] # 0 => reg'.conn[reg.sessions[n]].disconnected
     /\ \A ok \in [ServerNames -> BOOLEAN] :
          CloseAll(ok) =>
            /\ reg'.ret.status = "ok"
            /\ \A n \in ServerNames : reg'.sessions[n] = 0
            /\ reg'.activeSessions = <<>>
            /\ \A n \in ServerNames :
                 reg.sessions[n] # 0 => reg'.conn[reg.sessions[n]].disconnected]_vars

\* closeAllSessions returned after closing two sessions, the disconnect()
\* of one of them having raised.
C23_Witness ==
  /\ reg.ret.op = "closeAllSessions" /\ reg.ret.status = "ok"
  /\ reg.nConn = 2 /\ reg.conn[1].disconnected /\ reg.conn[2].disconnected
  /\ reg.conn[1].server # reg.conn[2].server
  /\ reg.conn[1].connected /\ ~reg.conn[2].connected
  /\ \A n \in ServerNames : reg.sessions[n] = 0

\* C24: removeServer(name) deletes the config entry and drops name from
\* activeSessions, and leaves the session map and every connector as they
\* are: the session is still what getSession(name) returns and a later
\* closeSession(name) or closeAllSessions() still disconnects it;
\* removeServer of a name that is not configured changes nothing.
C24_RemoveServerKeepsSession ==
  [][/\ \A n \in ServerNames :
          RemoveServer(n) =>
            /\ reg'.config = [reg.config EXCEPT ![n] = "undefined"]
            /\ reg'.activeSessions = FilterOut(reg.activeSessions, n)
            /\ reg'.sessions = reg.sessions
            /\ reg'.conn = reg.conn /\ reg'.nConn = reg.nConn
            /\ reg.config[n] = "undefined" => reg'.activeSessions = reg.activeSessions
     /\ \A n \in ServerNames : \A ok \in BOOLEAN :
          (CloseSession(n, ok) /\ reg.config[n] = "undefined" /\ reg.sessions[n] # 0) =>
            reg'.conn[reg.sessions[n]].disconnected /\ reg'.sessions[n] = 0
     /\ \A ok \in [ServerNames -> BOOLEAN] :
          CloseAll(ok) =>
            \A n \in ServerNames :
              (reg.config[n] = "undefined" /\ reg.sessions[n] # 0) =>
                 reg'.conn[reg.sessions[n]].disconnected]_vars

\* The session of a server removed from the configuration, closed later by
\* closeSession.
C24_Witness ==
  /\ reg.ret.op = "closeSession" /\ reg.ret.status = "ok" /\ reg.ret.n > 0
  /\ reg.ret.arg \in ServerNames
  /\ reg.config[reg.ret.arg] = "undefined"
  /\ reg.conn[reg.ret.n].disconnected /\ reg.conn[reg.ret.n].server = reg.ret.arg

\* ------------------------------------------------------------------------
\* Properties of the disconnect and add-server management tools
\* ------------------------------------------------------------------------

\* C25: the disconnect management tool only clears the activeServer
\* pointer: the client's sessions and activeSessions, the serverTools cache
\* and initializedServers are left unchanged and no connector is
\* disconnected.
C25_DisconnectOnlyClearsPointer ==
  [][CallDisconnect =>
       /\ sm'.activeServer = "null"
       /\ reg'.sessions = reg.sessions
       /\ reg'.activeSessions = reg.activeSessions
       /\ reg'.config = reg.config
       /\ reg'.conn = reg.conn /\ reg'.nConn = reg.nConn
       /\ sm'.serverTools = sm.serverTools
       /\ sm'.initializedServers = sm.initializedServers
       /\ sm'.connectorToolMap = sm.connectorToolMap
       /\ sm'.overrideManagementTools = sm.overrideManagementTools]_vars

\* The tool disconnected from a server whose session is still registered
\* and connected, with its tools still cached.
C25_Witness ==
  /\ sm.ret.op = "disconnect_from_mcp_server" /\ sm.ret.status = "disconnected"
  /\ sm.ret.arg \in ServerNames
  /\ sm.activeServer = "null"
  /\ reg.sessions[sm.ret.arg] # 0
  /\ reg.conn[reg.sessions[sm.ret.arg]].connected
  /\ ~reg.conn[reg.sessions[sm.ret.arg]].disconnected
  /\ sm.serverTools[sm.ret.arg].def
  /\ sm.ret.arg \in sm.initializedServers

AddServerFailureReturned ==
  /\ sm.ret.op = "add_mcp_server_from_config" /\ sm.ret.status = "failed"
  /\ sm.ret.arg \in GetServerNames(reg)
  /\ reg.sessions[sm.ret.arg] = 0

\* ------------------------------------------------------------------------
\* Properties of MCPAgent.streamEvents
\* ------------------------------------------------------------------------

\* C27: streamEvents() yields to its consumer every event the executor's
\* event stream emitted, in order and without dropping any, malformed and
\* null events included.
C27_YieldsEveryEvent ==
  ag.pc = "done" => ag.yielded = ag.emitted

\* What the code does: the events that are objects are yielded in order,
\* whatever fields they lack; null and values that are not objects are
\* counted and dropped.
YieldsObjectEvents ==
  /\ ag.pc \in {"loop", "yielded", "done", "threw", "returned"} =>
       /\ ag.yielded = SelectSeq(ag.emitted, LAMBDA e : ~SkippedEvent(e))
       /\ ag.eventCount = Len(ag.emitted)
  /\ ag.pc = "done" => ag.executor = <<>>

\* The stream ended after emitting a malformed event and a null event.
NullEventDropped ==
  /\ ag.pc = "done"
  /\ \E i \in 1..Len(ag.emitted) : ag.emitted[i].t = "null"
  /\ \E i \in 1..Len(ag.yielded) : ag.yielded[i].event = "malformed"
  /\ Len(ag.yielded) < Len(ag.emitted)

\* C28: with memory enabled, one complete streamEvents() call appends
\* exactly two messages to the conversation history: the user query once
\* and the final AI response once. A call is complete when the consumer
\* took every event and the executor's stream ended with the end of its
\* chain carrying the response.
FinalEvent(a) == a.emitted[Len(a.emitted)]

CompleteCall ==
  /\ ag.pc = "done" /\ ag.memoryEnabled
  /\ ag.emitted # <<>>
  /\ FinalEvent(ag).event = "on_chain_end" /\ FinalEvent(ag).output # "undefined"

C28_TwoMessagesPerCall ==
  CompleteCall => ag.conversationHistory = <<"human", "ai">>

\* What the code does: the user query once, then one AI message for every
\* on_chain_end event whose output is, or carries, a non-empty string.
OneAIMessagePerChainEnd ==
  (ag.pc = "done" /\ ag.memoryEnabled) =>
    /\ Len(ag.conversationHistory) = 1 + Len(SelectSeq(ag.emitted, AddsAIMessage))
    /\ ag.conversationHistory[1] = "human"
    /\ \A i \in 2..Len(ag.conversationHistory) : ag.conversationHistory[i] = "ai"

\* A complete call whose response is the empty string: only the user query
\* is in the history.
EmptyResponseNotRecorded ==
  /\ CompleteCall /\ FinalEvent(ag).output = "wrappedEmpty"
  /\ Len(ag.emitted) = 1
  /\ ag.conversationHistory = <<"human">>

\* A complete call in which two chains ended with a string output: three
\* messages are in the history.
TwoChainEndsRecorded ==
  /\ CompleteCall
  /\ ag.conversationHistory = <<"human", "ai", "ai">>

\* ------------------------------------------------------------------------
\* Properties of stopping and restarting a ConnectionManager
\* ------------------------------------------------------------------------

\* stop() call s awaits task t, whose establishConnection is still pending.
StopDuringEstablish(r, s, t) ==
  r.stopCall[s] = "awaitTask" /\ r.stopTask[s] = t /\ r.tpc[t] = "establishing"

\* The three parts of C29 for manager 1 in a step from r to q.
StopLetsEstablishRun(r, q) ==
  \A s \in StopIds :
    (Stop(1, s) /\ r.task # 0 /\ r.tpc[r.task] = "establishing") =>
      /\ q.tpc[r.task] = "establishing"
      /\ q.stopCall[s] = "awaitTask"
      /\ q.closeCalls = r.closeCalls

EstablishedThenClosedOnce(r, q) ==
  \A t \in Tasks : \A s \in StopIds :
    /\ (EstablishOk(1, t) /\ StopDuringEstablish(r, s, t)) =>
         /\ q.tpc[t] = "closing" /\ q.tClosing[t] = t
         /\ q.closeCalls[t] = 1
         /\ q.stopCall[s] = "awaitTask"
    /\ ((CloseOk(1, t) \/ CloseFail(1, t)) /\ r.stopCall[s] = "awaitTask" /\ r.stopTask[s] = t) =>
         /\ q.stopCall[s] = "returned"
         /\ q.closeCalls[r.tClosing[t]] = 1

FailedThenNoClose(r, q) ==
  \A t \in Tasks : \A s \in StopIds :
    (EstablishFail(1, t) /\ StopDuringEstablish(r, s, t)) =>
      /\ q.closeCalls = r.closeCalls
      /\ q.stopCall[s] = "returned"

\* C29: a stop() called while establishConnection is pending lets it run
\* to its end; if it succeeds the handle goes to closeConnection exactly
\* once and stop() resolves only when that close is over; if it fails no
\* close happens and stop() resolves.
C29_StopDuringEstablishment ==
  [][/\ StopLetsEstablishRun(cm[1], cm'[1])
     /\ EstablishedThenClosedOnce(cm[1], cm'[1])
     /\ FailedThenNoClose(cm[1], cm'[1])]_vars

\* The same statement for a manager on which start() is not called again
\* while a task is live.
StopDuringEstablishmentWithoutOverlap ==
  [][~cm'[1].overlapped =>
       /\ StopLetsEstablishRun(cm[1], cm'[1])
       /\ EstablishedThenClosedOnce(cm[1], cm'[1])
       /\ FailedThenNoClose(cm[1], cm'[1])]_vars

\* C30: after a start() and a completed stop(), a further start() runs
\* establishConnection again and returns the new handle, which stays open
\* until a further stop(); that stop() closes the new handle exactly once
\* and resolves.
C30_RestartAfterStop ==
  \A k \in Tasks :
    (k >= 2 /\ cm[1].gen >= k /\ ~cm[1].overlapped) =>
      /\ cm[1].tpc[k] # "none"
      /\ k \in cm[1].established =>
           /\ cm[1].startCall[k] = "returned" /\ cm[1].startRet[k] = k
           /\ cm[1].closeCalls[k] <= 1
      /\ k \notin cm[1].established => cm[1].closeCalls[k] = 0
      /\ cm[1].closeCalls[k] > 0 =>
           \E s \in StopIds : cm[1].stopCall[s] # "none" /\ cm[1].stopTask[s] = k
      /\ \A s \in StopIds :
           (cm[1].stopCall[s] # "none" /\ cm[1].stopTask[s] = k) =>
             /\ cm[1].stopCall[s] = "awaitTask" => cm[1].tpc[k] \in {"establishing", "closing"}
             /\ cm[1].stopCall[s] # "awaitDone"
             /\ cm[1].tpc[k] = "finished" =>
                  /\ cm[1].stopCall[s] = "returned"
                  /\ k \in cm[1].established => cm[1].closeCalls[k] = 1

\* Both rounds ran: start, stop, start, stop, each start returning its own
\* handle and each handle closed once.
C30_Witness ==
  /\ cm[1].gen = 2 /\ ~cm[1].overlapped
  /\ cm[1].startRet[1] = 1 /\ cm[1].startRet[2] = 2
  /\ cm[1].closeCalls[1] = 1 /\ cm[1].closeCalls[2] = 1
  /\ cm[1].stopTask[1] = 1 /\ cm[1].stopCall[1] = "returned"
  /\ cm[1].stopTask[2] = 2 /\ cm[1].stopCall[2] = "returned"
  /\ cm[1].tpc[2] = "finished"

\* A stop() that was called during establishment returned after the close
\* of the handle that establishment produced.
C29_Witness ==
  /\ cm[1].gen = 1 /\ 1 \in cm[1].established
  /\ cm[1].startCall[1] = "returned"
  /\ cm[1].stopTask[1] = 1 /\ cm[1].stopCall[1] = "returned"
  /\ cm[1].closeCalls[1] = 1 /\ cm[1].tpc[1] = "finished"
  /\ cm[1].tSignal[1] = 0

\* ------------------------------------------------------------------------
\* Properties of WebSocketConnector.disconnect and sendRequest
\* ------------------------------------------------------------------------

\* C31: disconnect() on a connected WebSocketConnector eventually
\* completes, the peer keeping its end of the socket open or not.
C31_WsDisconnectCompletes ==
  (cx.kind = "websocket" /\ cx.op = "disconnect") ~> (cx.op = "none")

\* The same for the connectors built on BaseConnector.
BaseDisconnectCompletes ==
  (cx.kind # "websocket" /\ cx.op = "disconnect") ~> (cx.op = "none")

\* disconnect() is suspended on the receiver task while the socket is open
\* and its manager has not been asked to stop.
WsDisconnectParked ==
  /\ cx.kind = "websocket" /\ cx.op = "disconnect" /\ cx.pc = "awaitReceiver"
  /\ cx.ws # 0 /\ cx.sock[cx.ws] = "open"
  /\ \A s \in StopIds : cm[cx.ws].stopCall[s] = "none"

\* What the code does when the socket does close: disconnect() returns
\* with the manager stopped, nothing pending but requests made during the
\* call, the cache cleared and connected false.
WsDisconnectAfterClose ==
  (cx.kind = "websocket" /\ cx.op = "none" /\ cx.ret.name = "disconnect" /\ cx.ret.outcome = "ok") =>
    /\ ~cx.connected /\ ~cx.toolsCache
    /\ \A i \in cx.pending : cx.req[i].sendCb = "waiting"
    /\ cx.connectionManager = 0 /\ cx.ws = 0
    /\ \A m \in Mgrs : Exists(m) => (Stopped(m) /\ cx.sock[m] = "closed")

\* C32: an entry is never removed from the pending map while its request
\* is left unsettled: every request whose promise is pending has its entry,
\* so that a response frame with its id or the loss of the connection
\* settles it.
C32_PendingUntilSettled ==
  \A i \in ReqIds : cx.req[i].state = "pending" => i \in cx.pending

\* What the code does: the only step that removes the entry of a request
\* and leaves its promise pending is a frame that carries the id and
\* neither a result nor an error.
UnsettledOnlyByEmptyFrame ==
  [][\A i \in ReqIds :
       (i \in cx.pending /\ i \notin cx'.pending /\ cx'.req[i].state = "pending") =>
         \E m \in Mgrs : OnMessage(m, [id |-> i, kind |-> "neither"])]_vars

\* A request lost its entry and stays unsettled after the socket closed.
RequestNeverSettled ==
  \E i \in ReqIds :
    /\ cx.req[i].state = "pending" /\ i \notin cx.pending
    /\ cx.req[i].sendCb = "done"
    /\ \E m \in Mgrs : cx.sock[m] = "closed"

\* ------------------------------------------------------------------------
\* Properties of ServerManager.prefetchServerTools and of the connect tool
\* ------------------------------------------------------------------------

\* Server n can give its tools to a prefetch made in registry r: it has a
\* session whose connector is initialized, or a usable configuration and a
\* server that answers.
CanPrefetch(r, m, n, io) ==
  IF r.sessions[n] # 0
    THEN r.conn[r.sessions[n]].toolsCache \/ r.sessions[n] \in m.connectorToolMap
    ELSE r.config[n] = "valid" /\ io = "ok"

StopCompletes(r, q) ==
  \E s \in StopIds : r.stopCall[s] # "returned" /\ q.stopCall[s] = "returned"

\* C34: whenever stop() completes, every handle establishConnection
\* returned on that instance has been passed to closeConnection, also when
\* start() was called more than once before stop().
C34_StopClosesEveryHandle ==
  [][StopCompletes(cm[1], cm'[1]) =>
       \A h \in cm'[1].established : cm'[1].closeCalls[h] >= 1]_vars

\* The same statement for a manager on which start() is not called while
\* a task is live.
StopClosesEveryHandleWithoutOverlap ==
  [][(StopCompletes(cm[1], cm'[1]) /\ ~cm'[1].overlapped) =>
       \A h \in cm'[1].established : cm'[1].closeCalls[h] >= 1]_vars

\* Every task is over and every stop() has returned, and a handle that
\* was established was never closed.
HandleLeftOpen ==
  /\ \A t \in Tasks : cm[1].tpc[t] = "finished"
  /\ \A s \in StopIds : cm[1].stopCall[s] = "returned"
  /\ \E h \in cm[1].established : cm[1].closeCalls[h] = 0

\* Handle h is passed to closeConnection in the step from r to q.
ClosePassed(r, q, h) == q.closeCalls[h] > r.closeCalls[h]

\* A start() call of manager r has returned handle h.
Returned(r, h) == \E k \in Tasks : r.startCall[k] = "returned" /\ r.startRet[k] = h

\* C35: a handle that start() returned is passed to closeConnection only
\* in response to a stop() call made after start() returned: the step that
\* passes it is a stop() call, made when the handle had been returned.
C35_ClosedOnlyByLaterStop ==
  [][\A h \in Tasks :
       (ClosePassed(cm[1], cm'[1], h) /\ Returned(cm'[1], h)) =>
         /\ \E s \in StopIds : Stop(1, s)
         /\ Returned(cm[1], h)]_vars

\* What the code does: the statement holds for the steps taken while no
\* stop() call is waiting for the task, on a manager whose start() was not
\* called with a task still live.
ClosedOnlyByLaterStopUnlessStopPending ==
  [][\A h \in Tasks :
       (/\ ClosePassed(cm[1], cm'[1], h) /\ Returned(cm'[1], h)
        /\ ~cm'[1].overlapped
        /\ \A s \in StopIds : cm[1].stopCall[s] # "awaitTask") =>
         /\ \E s \in StopIds : Stop(1, s)
         /\ Returned(cm[1], h)]_vars

\* start() returned a handle that was already on its way to
\* closeConnection, one stop() having been called before it returned.
ReturnedHandleClosing ==
  /\ cm[1].gen = 1 /\ cm[1].startCall[1] = "returned" /\ cm[1].startRet[1] = 1
  /\ cm[1].tpc[1] = "closing" /\ cm[1].closeCalls[1] = 1
  /\ cm[1].tSignal[1] = 0
  /\ cm[1].stopCall[1] = "awaitTask" /\ cm[1].stopCall[2] = "none"

\* ------------------------------------------------------------------------
\* Properties of concurrent connect() calls
\* ------------------------------------------------------------------------

StartedManagers == {m \in ConnectCalls : cx.mgr[m] = "started"}

ConnectsSettled == \A c \in ConnectCalls : cx.call[c].pc # "none" /\ ~InProgress(cx, c)

\* C36: once two connect() calls on the same connector have settled, at
\* most one connection manager is left started, and a following
\* disconnect() stops every connection manager that was started.
C36_OneManagerAfterRace ==
  /\ ConnectsSettled => Cardinality(StartedManagers) <= 1
  /\ (ConnectsSettled /\ cx.call[0].pc \in {"returned", "noop"}) => StartedManagers = {}

\* The same statement for calls made one after the other.
OneManagerWithoutRace ==
  ~cx.raced =>
    /\ ConnectsSettled => Cardinality(StartedManagers) <= 1
    /\ (ConnectsSettled /\ cx.call[0].pc \in {"returned", "noop"}) => StartedManagers = {}

\* Both connect() calls returned, disconnect() returned, and a manager
\* that no field refers to is still started.
ManagerLeftStarted ==
  /\ \A c \in ConnectCalls : cx.call[c].pc = "returned"
  /\ cx.call[0].pc = "returned" /\ ~cx.connected
  /\ cx.connectionManager = 0
  /\ StartedManagers # {}

\* ------------------------------------------------------------------------
\* Properties of the session registry's bookkeeping
\* ------------------------------------------------------------------------

\* getAllActiveSessions() (client.ts lines 116-120): the names of
\* activeSessions whose entry in the session map is missing.
MissingActiveSessions == {n \in SeqToSet(reg.activeSessions) : reg.sessions[n] = 0}

\* C37: after any sequence of addServer, removeServer, createSession,
\* closeSession and closeAllSessions, activeSessions holds no name twice
\* and every name in it has a session in the session map.
C37_ActiveSessionsConsistent ==
  /\ \A i, j \in 1..Len(reg.activeSessions) :
       reg.activeSessions[i] = reg.activeSessions[j] => i = j
  /\ MissingActiveSessions = {}

\* createSession returned for a name that was already active: the name is
\* listed once and maps to the new session.
C37_Witness ==
  /\ reg.ret.op = "createSession" /\ reg.ret.status = "ok" /\ reg.ret.n = 2
  /\ reg.conn[1].server = reg.conn[2].server
  /\ ~reg.conn[1].disconnected
  /\ reg.activeSessions = <<reg.ret.arg>>
  /\ reg.sessions[reg.ret.arg] = 2

\* ------------------------------------------------------------------------
\* Properties of connectors the registry no longer refers to
\* ------------------------------------------------------------------------

Registered(r, c) == r.conn[c].server \in ServerNames /\ r.sessions[r.conn[c].server] = c

\* A connection that is open and that no entry of the session map leads to.
Leaked(r, c) == r.conn[c].connected /\ ~r.conn[c].disconnected /\ ~Registered(r, c)

\* C38: createSession(name), when a connected session for name is
\* registered, does not leave that session's connection open and
\* unreachable: it is still registered or has been disconnected.
C38_ReplacedSessionReleased ==
  [][\A c \in ConnIds :
       (Registered(reg, c) /\ reg.conn[c].connected /\ reg'.ret.status = "ok"
        /\ reg'.ret.op \in {"createSession", "createAllSessions"})
         => ~Leaked(reg', c)]_vars

\* A registered connection becomes unreachable while open only by a
\* createSession that succeeds for its name.
LeakOfRegisteredOnlyByCreate ==
  [][\A c \in ConnIds :
       (Registered(reg, c) /\ Leaked(reg', c))
         => /\ reg'.ret.op \in {"createSession", "createAllSessions"}
            /\ reg'.sessions[reg.conn[c].server] \notin {0, c}]_vars

\* The session map holds a second session for a name whose first session
\* is initialised, connected and was never disconnected.
PreviousSessionLeaked ==
  \E c \in ConnIds :
    /\ reg.conn[c].connected /\ reg.conn[c].toolsCache /\ ~reg.conn[c].disconnected
    /\ reg.conn[c].server \in ServerNames
    /\ reg.sessions[reg.conn[c].server] \notin {0, c}

\* ------------------------------------------------------------------------
\* Properties of a createSession whose initialize() raises
\* ------------------------------------------------------------------------

\* The step is a createSession(name, true) whose connector connected and
\* whose connector.initialize() raised.
InitializeRaised ==
  /\ reg'.nConn = reg.nConn + 1
  /\ reg'.ret.op = "createSession" /\ reg'.ret.status = "threw: initialize"

\* C39: if createSession(name, true) fails after the connector connected,
\* the error propagates, no session is registered, and the connection that
\* was opened is released rather than left connected and unreachable.
C39_FailedInitializeReleases ==
  [][InitializeRaised =>
       /\ reg'.sessions = reg.sessions /\ reg'.activeSessions = reg.activeSessions
       /\ ~Leaked(reg', reg'.nConn)]_vars

\* What holds of such a call: the error propagates and the session map and
\* activeSessions are as before.
FailedInitializePropagates ==
  [][InitializeRaised =>
       /\ CreateThrew(reg')
       /\ reg'.sessions = reg.sessions /\ reg'.activeSessions = reg.activeSessions]_vars

\* createSession raised out of initialize() and its connector is connected,
\* never disconnected, and in no entry of the session map.
FailedInitializeLeaked ==
  /\ reg.ret.op = "createSession" /\ reg.ret.status = "threw: initialize"
  /\ reg.nConn > 0 /\ Leaked(reg, reg.nConn)

\* ------------------------------------------------------------------------
\* Properties of a connect_to_mcp_server call that does not succeed
\* ------------------------------------------------------------------------

\* The step is a connect_to_mcp_server call that returned one of its
\* failure strings.
ConnectNotSucceeded ==
  /\ sm'.ret.op = "connect_to_mcp_server"
  /\ sm'.ret.status \in {"not found", "failed"}

\* C40: whenever connect_to_mcp_server does not report success, it returns
\* a status string instead of raising and leaves activeServer as it was
\* before the call.
C40_FailedConnectKeepsActiveServer ==
  [][\A name \in CallNames : \A io \in IOs : \A fio \in FetchIOs :
       (ConnectShared(name, io, fio) /\ ConnectNotSucceeded)
         => sm'.activeServer = sm.activeServer]_vars

\* The same statement for the failures that happen before the tools are
\* fetched: unknown name, or createSession raised.
FailedBeforeFetchKeepsActiveServer ==
  [][\A name \in CallNames : \A io \in IOs : \A fio \in FetchIOs :
       (ConnectShared(name, io, fio) /\ ConnectNotSucceeded
        /\ (name \in GetServerNames(reg) => reg.sessions[name] = 0 /\ CreateThrew(reg')))
         => sm'.activeServer = sm.activeServer]_vars

\* connect_to_mcp_server returned "Failed to connect to server" and the
\* server it named is the active one.
FailedConnectBecameActive ==
  /\ sm.ret.op = "connect_to_mcp_server" /\ sm.ret.status = "failed"
  /\ sm.activeServer = sm.ret.arg

====
